---- MODULE Spec2Model ----
(***************************************************************************)
(* A model of the roguelike's core (src/src/main.rs): the entity store,    *)
(* the world state, stat composition, combat, item use, levelling, the     *)
(* dungeon generator and the turn loop of play_game.                       *)
(*                                                                         *)
(* Representation.                                                         *)
(*   Option<T>     a sequence of length 0 (None) or 1 (Some(v)).           *)
(*   Object        a record; the display-only fields char, color and       *)
(*                 always_visible are left out.                            *)
(*   Map           the set of rectangles of tiles that create_room and the *)
(*                 tunnel carvers set to Tile::empty(); every other tile   *)
(*                 is Tile::wall().  block_sight always equals blocked and *)
(*                 explored is read by the renderer only.                  *)
(*   game.log      the entries appended since the top of the current       *)
(*                 iteration of play_game's loop; an entry is its message  *)
(*                 kind.  The log is append-only and the core never reads  *)
(*                 it, so the older prefix is not kept.                    *)
(*   tcod.fov      the tile compute_fov was last called for; what is in    *)
(*                 view is drawn at each query, among the tiles within     *)
(*                 TORCH_RADIUS of that tile.                              *)
(*   f32 distances compared through their squares, which is exact for the  *)
(*                 coordinates of an 80 x 43 grid.                         *)
(***************************************************************************)
EXTENDS Integers, Sequences, FiniteSets, TLC

VARIABLES
  objects,        \* the entity store, the player at index PLAYER
  game,           \* Game: map, log, inventory, dungeon_level
  pc,             \* where play_game's loop stands
  player_action,  \* what handle_keys returned
  ai_id,          \* the index the AI sweep has reached
  turn,           \* iterations of the loop begun
  last,           \* what the last step did
  savegame,       \* the file save_game writes
  fov_origin      \* the tile tcod.fov was last computed from

vars == <<objects, game, pc, player_action, ai_id, turn, last, savegame, fov_origin>>

---------------------------------------------------------------------------
(* Program constants.                                                      *)

MAP_WIDTH == 80
MAP_HEIGHT == 43
ROOM_MAX_SIZE == 10
ROOM_MIN_SIZE == 6
MAX_ROOMS == 30
TORCH_RADIUS == 5
PLAYER == 1                 \* index 0 of the Vec; sequences start at 1
HEAL_AMOUNT == 40
ATTACK_BUFF == 2
PLAYER_MAX_ATTACK == 9
LIGHTNING_DAMAGE == 40
LIGHTNING_RANGE == 5
LEVEL_UP_BASE == 200
LEVEL_UP_FACTOR == 150
MONSTER_LEVEL_UP_BASE == 20
MONSTER_ATTACK_LEVEL_UP_BASE == 5
MONSTER_DEFENSE_LEVEL_UP_BASE == 5
MONSTER_LEVEL_UP_FACTOR == 2
INVENTORY_CAPACITY == 26

---------------------------------------------------------------------------
(* Option<T>.                                                              *)

None == <<>>

Some(v) == <<v>>

IsSome(o) == o # <<>>

IsNone(o) == o = <<>>

(* A removal that fills the gap with the last element, as swap_remove does. *)
RemoveSwapping(s, i) ==
  [k \in 1..(Len(s) - 1) |-> IF k = i THEN s[Len(s)] ELSE s[k]]

(* Vec::remove(i): the elements after i shift down.                        *)
Remove(s, i) == [k \in 1..(Len(s) - 1) |-> IF k < i THEN s[k] ELSE s[k + 1]]

(* Vec::swap_remove(i): the last element takes the place of element i.     *)
SwapRemove(s, i) ==
  [k \in 1..(Len(s) - 1) |-> IF k = i THEN s[Len(s)] ELSE s[k]]

RECURSIVE SumSeq(_)
SumSeq(s) == IF s = <<>> THEN 0 ELSE Head(s) + SumSeq(Tail(s))

(* Iterator::position: the first of the indices whose element passes the   *)
(* test, or None.                                                          *)
Position(hits) ==
  IF hits = {} THEN None ELSE Some(CHOOSE i \in hits : \A j \in hits : i <= j)

(* mut_two: the two elements, or None where its assert_ne or the slice     *)
(* indexing panics.                                                        *)
mut_two(first_index, second_index, items) ==
  IF /\ first_index # second_index
     /\ first_index \in 1..Len(items)
     /\ second_index \in 1..Len(items)
  THEN Some(<<items[first_index], items[second_index]>>)
  ELSE None

Min(a, b) == IF a < b THEN a ELSE b

Max(a, b) == IF a > b THEN a ELSE b

Sgn(a) == IF a > 0 THEN 1 ELSE IF a < 0 THEN -1 ELSE 0

---------------------------------------------------------------------------
(* Object and its components.                                              *)

ObjectNew(x, y, name, blocks) ==
  [x |-> x, y |-> y, name |-> name, blocks |-> blocks, alive |-> FALSE,
   fighter |-> None, ai |-> None, item |-> None, level |-> 1,
   equipment |-> None]

Fighter(base_max_hp, hp, base_defense, base_power, on_death, xp) ==
  [base_max_hp |-> base_max_hp, hp |-> hp, base_defense |-> base_defense,
   base_power |-> base_power, on_death |-> on_death, xp |-> xp]

Equipment(slot, equipped, max_hp_bonus, power_bonus, defense_bonus) ==
  [slot |-> slot, equipped |-> equipped, max_hp_bonus |-> max_hp_bonus,
   power_bonus |-> power_bonus, defense_bonus |-> defense_bonus]

(* A name is the sequence of its words.                                     *)
PlayerName == <<"player">>

Pos(o) == <<o.x, o.y>>

SetPos(o, x, y) == [o EXCEPT !.x = x, !.y = y]

(* The square of Object::distance_to.                                      *)
Distance2(a, b) == (b.x - a.x) * (b.x - a.x) + (b.y - a.y) * (b.y - a.y)

LogAdd(log, message) == Append(log, message)

---------------------------------------------------------------------------
(* Stat composition.                                                       *)

IsEquipped(item) == IsSome(item.equipment) /\ item.equipment[1].equipped

(* get_all_equipped without its test of the name.                          *)
get_all_equipped_of_anyone(self, g) ==
  LET worn == SelectSeq(g.inventory, IsEquipped)
  IN [k \in 1..Len(worn) |-> worn[k].equipment[1]]

get_all_equipped(self, g) ==
  IF self.name = PlayerName
  THEN LET worn == SelectSeq(g.inventory, IsEquipped)
       IN [k \in 1..Len(worn) |-> worn[k].equipment[1]]
  ELSE <<>>

power(self, g) ==
  LET base_power == IF IsSome(self.fighter) THEN self.fighter[1].base_power ELSE 0
      eq == get_all_equipped(self, g)
  IN base_power + SumSeq([k \in 1..Len(eq) |-> eq[k].power_bonus])

defense(self, g) ==
  LET base_defense == IF IsSome(self.fighter) THEN self.fighter[1].base_defense ELSE 0
      eq == get_all_equipped(self, g)
  IN base_defense + SumSeq([k \in 1..Len(eq) |-> eq[k].defense_bonus])

max_hp(self, g) ==
  LET base_max_hp == IF IsSome(self.fighter) THEN self.fighter[1].base_max_hp ELSE 0
      eq == get_all_equipped(self, g)
  IN base_max_hp + SumSeq([k \in 1..Len(eq) |-> eq[k].max_hp_bonus])

---------------------------------------------------------------------------
(* Death callbacks and take_damage.  Each operator returns the changed     *)
(* object and log; take_damage also returns its Option<i32>.               *)

(* format!("remains of {}", monster.name)                                   *)
Remains(name) == <<"remains of">> \o name

player_death(player, log) ==
  [obj |-> player, log |-> LogAdd(log, "player_died")]

(* monster_death without blocks = false.                                   *)
monster_death_blocking(monster, log) ==
  [obj |-> [monster EXCEPT !.fighter = None, !.ai = None,
                           !.name = Remains(monster.name)],
   log |-> LogAdd(log, "monster_died")]

monster_death(monster, log) ==
  [obj |-> [monster EXCEPT !.blocks = FALSE, !.fighter = None, !.ai = None,
                           !.name = Remains(monster.name)],
   log |-> LogAdd(log, "monster_died")]

callback(on_death, object, log) ==
  IF on_death = "Player" THEN player_death(object, log)
  ELSE monster_death(object, log)

(* take_damage without self.alive = false.                                 *)
take_damage_keeping_alive(self, damage, log) ==
  LET hurt == IF IsSome(self.fighter) /\ damage > 0
              THEN [self EXCEPT !.fighter[1].hp = @ - damage]
              ELSE self
  IN IF IsSome(hurt.fighter) /\ hurt.fighter[1].hp <= 0
     THEN LET fighter == hurt.fighter[1]
              died == callback(fighter.on_death, hurt, log)
          IN [obj |-> died.obj, log |-> died.log, ret |-> Some(fighter.xp)]
     ELSE [obj |-> hurt, log |-> log, ret |-> None]

take_damage(self, damage, log) ==
  LET hurt == IF IsSome(self.fighter) /\ damage > 0
              THEN [self EXCEPT !.fighter[1].hp = @ - damage]
              ELSE self
  IN IF IsSome(hurt.fighter) /\ hurt.fighter[1].hp <= 0
     THEN LET fighter == hurt.fighter[1]
              died == callback(fighter.on_death, [hurt EXCEPT !.alive = FALSE], log)
          IN [obj |-> died.obj, log |-> died.log, ret |-> Some(fighter.xp)]
     ELSE [obj |-> hurt, log |-> log, ret |-> None]

---------------------------------------------------------------------------
(* Combat.  miss is the draw rand::random::<f32>() < 0.1.                  *)

(* The damage of attack had it left the target's defense out.              *)
AttackDamageUndefended(self, target, g, miss) ==
  IF miss THEN -1 ELSE power(self, g)

AttackDamage(self, target, g, miss) ==
  IF miss THEN -1 ELSE power(self, g) - defense(target, g)

(* Object::attack: returns the attacker, the target and the log.           *)
attack(self, target, g, miss) ==
  LET damage == AttackDamage(self, target, g, miss)
  IN IF damage > 0
     THEN LET td == take_damage(target, damage, LogAdd(g.log, "hit"))
          IN [self |-> IF IsSome(td.ret)
                       THEN [self EXCEPT !.fighter[1].xp = @ + td.ret[1]]
                       ELSE self,
              target |-> td.obj, log |-> td.log]
     ELSE IF damage < 0
     THEN [self |-> self, target |-> target, log |-> LogAdd(g.log, "miss")]
     ELSE [self |-> self, target |-> target, log |-> LogAdd(g.log, "no_effect")]

(* A variant that adds the amount without the cap.                         *)
cast_uncapped(self, cast_type, amount, g) ==
  IF cast_type = "heal" /\ IsSome(self.fighter)
  THEN [self EXCEPT !.fighter[1].hp = @ + amount]
  ELSE self

(* Object::cast: only "heal" has an arm.                                   *)
cast(self, cast_type, amount, g) ==
  LET top == max_hp(self, g)
  IN IF cast_type = "heal" /\ IsSome(self.fighter)
     THEN [self EXCEPT !.fighter[1].hp = IF @ + amount > top THEN top ELSE @ + amount]
     ELSE self

(* Object::equip and Object::dequip: the object and the log.               *)
equip(self, log) ==
  IF IsNone(self.item)
  THEN [obj |-> self, log |-> LogAdd(log, "cant_equip")]
  ELSE IF IsSome(self.equipment)
  THEN IF ~self.equipment[1].equipped
       THEN [obj |-> [self EXCEPT !.equipment[1].equipped = TRUE],
             log |-> LogAdd(log, "equipped")]
       ELSE [obj |-> self, log |-> log]
  ELSE [obj |-> self, log |-> LogAdd(log, "cant_equip")]

(* A variant that logs the dequipping and leaves the flag set.              *)
dequip_in_name_only(self, log) ==
  IF IsNone(self.item)
  THEN [obj |-> self, log |-> LogAdd(log, "cant_dequip")]
  ELSE IF IsSome(self.equipment)
  THEN IF self.equipment[1].equipped
       THEN [obj |-> self, log |-> LogAdd(log, "dequipped")]
       ELSE [obj |-> self, log |-> log]
  ELSE [obj |-> self, log |-> LogAdd(log, "cant_dequip")]

dequip(self, log) ==
  IF IsNone(self.item)
  THEN [obj |-> self, log |-> LogAdd(log, "cant_dequip")]
  ELSE IF IsSome(self.equipment)
  THEN IF self.equipment[1].equipped
       THEN [obj |-> [self EXCEPT !.equipment[1].equipped = FALSE],
             log |-> LogAdd(log, "dequipped")]
       ELSE [obj |-> self, log |-> log]
  ELSE [obj |-> self, log |-> LogAdd(log, "cant_dequip")]

---------------------------------------------------------------------------
(* The grid and movement.  fov is the set of tiles the visibility oracle   *)
(* (tcod's FovMap, outside the core) reports as in the field of view.      *)

InFov(fov, x, y) == <<x, y>> \in fov

InRect(r, x, y) == r.x1 <= x /\ x <= r.x2 /\ r.y1 <= y /\ y <= r.y2

(* map[x][y].blocked                                                       *)
TileBlocked(map, x, y) == ~\E r \in map : InRect(r, x, y)

is_blocked(x, y, map, objs) ==
  \/ TileBlocked(map, x, y)
  \/ \E i \in 1..Len(objs) : objs[i].blocks /\ Pos(objs[i]) = <<x, y>>

(* A variant that moves without asking is_blocked.                         *)
move_by_unchecked(id, dx, dy, map, objs) ==
  [objs EXCEPT ![id] = SetPos(@, objs[id].x + dx, objs[id].y + dy)]

move_by(id, dx, dy, map, objs) ==
  LET x == objs[id].x
      y == objs[id].y
  IN IF ~is_blocked(x + dx, y + dy, map, objs)
     THEN [objs EXCEPT ![id] = SetPos(@, x + dx, y + dy)]
     ELSE objs

(* (d as f32 / distance).round(): +-1 when |d| / distance >= 0.5, i.e.     *)
(* 4 d^2 >= dx^2 + dy^2, else 0.                                           *)
RoundUnit(d, dist2) == IF 4 * d * d >= dist2 THEN Sgn(d) ELSE 0

move_towards(id, target_x, target_y, map, objs) ==
  LET dx == target_x - objs[id].x
      dy == target_y - objs[id].y
      dist2 == dx * dx + dy * dy
  IN move_by(id, RoundUnit(dx, dist2), RoundUnit(dy, dist2), map, objs)

---------------------------------------------------------------------------
(* Item effects.  Each returns the entity store, the world and a UseResult.*)

cast_heal(inventory_id, objs, g, fov) ==
  LET player == objs[PLAYER]
  IN IF IsSome(player.fighter)
     THEN IF player.fighter[1].hp = max_hp(player, g)
          THEN [objects |-> objs, game |-> [g EXCEPT !.log = LogAdd(@, "full_health")],
                result |-> "Cancelled"]
          ELSE LET g1 == [g EXCEPT !.log = LogAdd(@, "healed")]
               IN [objects |-> [objs EXCEPT ![PLAYER] = cast(@, "heal", HEAL_AMOUNT, g1)],
                   game |-> g1, result |-> "UsedUp"]
     ELSE [objects |-> objs, game |-> g, result |-> "Cancelled"]

cast_attack_buff(inventory_id, objs, g, fov) ==
  IF IsSome(objs[PLAYER].fighter)
  THEN IF objs[PLAYER].fighter[1].base_power >= PLAYER_MAX_ATTACK
       THEN [objects |-> objs, game |-> [g EXCEPT !.log = LogAdd(@, "attack_too_high")],
             result |-> "Cancelled"]
       ELSE [objects |-> [objs EXCEPT ![PLAYER] = cast(@, "attack_buff", ATTACK_BUFF, g)],
             game |-> [g EXCEPT !.log = LogAdd(@, "attack_buff")],
             result |-> "UsedUp"]
  ELSE [objects |-> objs, game |-> g, result |-> "Cancelled"]

(* The entities closest_monster's filter lets through.                     *)
IsTarget(objs, id, fov) ==
  /\ id # PLAYER
  /\ IsSome(objs[id].fighter)
  /\ IsSome(objs[id].ai)
  /\ InFov(fov, objs[id].x, objs[id].y)

(* closest_monster without its test of the field of view.                 *)
closest_monster_unseen(max_range, objs, fov) ==
  LET near == {id \in 1..Len(objs) :
                 /\ id # PLAYER
                 /\ IsSome(objs[id].fighter)
                 /\ IsSome(objs[id].ai)
                 /\ Distance2(objs[PLAYER], objs[id]) < (max_range + 1) * (max_range + 1)}
      best == {id \in near : \A other \in near :
                 \/ Distance2(objs[PLAYER], objs[id]) < Distance2(objs[PLAYER], objs[other])
                 \/ /\ Distance2(objs[PLAYER], objs[id]) = Distance2(objs[PLAYER], objs[other])
                    /\ id <= other}
  IN IF near = {} THEN None ELSE Some(CHOOSE id \in best : TRUE)

(* closest_monster: the scan keeps the first entity at the least distance  *)
(* below max_range + 1 (dist < closest_dist is strict).                    *)
closest_monster(max_range, objs, fov) ==
  LET near == {id \in 1..Len(objs) :
                 /\ IsTarget(objs, id, fov)
                 /\ Distance2(objs[PLAYER], objs[id]) < (max_range + 1) * (max_range + 1)}
      best == {id \in near : \A other \in near :
                 \/ Distance2(objs[PLAYER], objs[id]) < Distance2(objs[PLAYER], objs[other])
                 \/ /\ Distance2(objs[PLAYER], objs[id]) = Distance2(objs[PLAYER], objs[other])
                    /\ id <= other}
  IN IF near = {} THEN None ELSE Some(CHOOSE id \in best : TRUE)

cast_lightning(inventory_id, objs, g, fov) ==
  LET monster_id == closest_monster(LIGHTNING_RANGE, objs, fov)
  IN IF IsSome(monster_id)
     THEN LET id == monster_id[1]
              td == take_damage(objs[id], LIGHTNING_DAMAGE, LogAdd(g.log, "lightning"))
              struck == [objs EXCEPT ![id] = td.obj]
          IN [objects |-> IF IsSome(td.ret)
                          THEN [struck EXCEPT ![PLAYER].fighter[1].xp = @ + td.ret[1]]
                          ELSE struck,
              game |-> [g EXCEPT !.log = td.log],
              result |-> "UseAndTakeTurn"]
     ELSE [objects |-> objs, game |-> [g EXCEPT !.log = LogAdd(@, "no_enemy")],
           result |-> "Cancelled"]

(* get_equipped_in_slot had it never found the slot taken.                 *)
get_equipped_in_slot_never(slot, inventory) == None

get_equipped_in_slot(slot, inventory) ==
  LET Worn(item) == /\ IsSome(item.equipment)
                    /\ item.equipment[1].equipped
                    /\ item.equipment[1].slot = slot
  IN Position({i \in 1..Len(inventory) : Worn(inventory[i])})

toggle_equipment(inventory_id, objs, g, fov) ==
  IF IsNone(g.inventory[inventory_id].equipment)
  THEN [objects |-> objs, game |-> g, result |-> "Cancelled"]
  ELSE LET equipment == g.inventory[inventory_id].equipment[1]
       IN IF equipment.equipped
          THEN LET d == dequip(g.inventory[inventory_id], g.log)
               IN [objects |-> objs,
                   game |-> [g EXCEPT !.inventory[inventory_id] = d.obj, !.log = d.log],
                   result |-> "UseAndKept"]
          ELSE LET current == get_equipped_in_slot(equipment.slot, g.inventory)
                   g1 == IF IsSome(current)
                         THEN LET d == dequip(g.inventory[current[1]], g.log)
                              IN [g EXCEPT !.inventory[current[1]] = d.obj, !.log = d.log]
                         ELSE g
                   e == equip(g1.inventory[inventory_id], g1.log)
               IN [objects |-> objs,
                   game |-> [g1 EXCEPT !.inventory[inventory_id] = e.obj, !.log = e.log],
                   result |-> "UseAndKept"]

(* The match of use_item that binds on_use.                                *)
on_use(item, inventory_id, objs, g, fov) ==
  CASE item = "Heal" -> cast_heal(inventory_id, objs, g, fov)
    [] item = "AttackBuff" -> cast_attack_buff(inventory_id, objs, g, fov)
    [] item = "Lightning" -> cast_lightning(inventory_id, objs, g, fov)
    [] OTHER -> toggle_equipment(inventory_id, objs, g, fov)

(* The arms of use_item had the Cancelled arm removed the item as well.    *)
ConsumesCancelled(result) == result \in {"UsedUp", "UseAndTakeTurn", "Cancelled"}

(* The arms of use_item's match on the UseResult: whether the arm removes  *)
(* the item, and the PlayerAction it yields.                               *)
Consumes(result) == result \in {"UsedUp", "UseAndTakeTurn"}

UseAction(result) == IF result = "UseAndTakeTurn" THEN "TookTurn" ELSE "DidntTakeTurn"

(* use_item: the entity store, the world, the UseResult of the effect (or  *)
(* "Unusable") and the PlayerAction returned.                              *)
use_item(inventory_id, objs, g, fov) ==
  IF IsSome(g.inventory[inventory_id].item)
  THEN LET used == on_use(g.inventory[inventory_id].item[1], inventory_id, objs, g, fov)
           kept == IF Consumes(used.result)
                   THEN [used.game EXCEPT !.inventory = Remove(@, inventory_id)]
                   ELSE used.game
       IN [objects |-> used.objects,
           game |-> IF used.result = "Cancelled"
                    THEN [kept EXCEPT !.log = LogAdd(@, "cancelled")]
                    ELSE kept,
           result |-> used.result, action |-> UseAction(used.result)]
  ELSE [objects |-> objs, game |-> [g EXCEPT !.log = LogAdd(@, "cannot_use")],
        result |-> "Unusable", action |-> "DidntTakeTurn"]

(* pick_item_up without its test of the inventory's length.                *)
pick_item_up_unbounded(object_id, objs, g) ==
  [objects |-> SwapRemove(objs, object_id),
   game |-> [g EXCEPT !.log = LogAdd(@, "picked_up"),
                      !.inventory = Append(@, objs[object_id])]]

pick_item_up(object_id, objs, g) ==
  IF Len(g.inventory) >= INVENTORY_CAPACITY
  THEN [objects |-> objs, game |-> [g EXCEPT !.log = LogAdd(@, "inventory_full")]]
  ELSE [objects |-> SwapRemove(objs, object_id),
        game |-> [g EXCEPT !.log = LogAdd(@, "picked_up"),
                           !.inventory = Append(@, objs[object_id])]]

(* drop_item without its call of dequip.                                   *)
drop_item_worn(inventory_id, objs, g) ==
  LET item == SetPos(g.inventory[inventory_id], objs[PLAYER].x, objs[PLAYER].y)
  IN [objects |-> Append(objs, item),
      game |-> [g EXCEPT !.inventory = Remove(@, inventory_id),
                         !.log = LogAdd(@, "dropped")]]

drop_item(inventory_id, objs, g) ==
  LET taken == g.inventory[inventory_id]
      d == IF IsSome(taken.equipment) THEN dequip(taken, g.log)
           ELSE [obj |-> taken, log |-> g.log]
      item == SetPos(d.obj, objs[PLAYER].x, objs[PLAYER].y)
  IN [objects |-> Append(objs, item),
      game |-> [g EXCEPT !.inventory = Remove(@, inventory_id),
                         !.log = LogAdd(d.log, "dropped")]]

---------------------------------------------------------------------------
(* Levelling.  level_up blocks in its menu loop until a choice is made, so *)
(* it is two steps: the threshold check, and the choice.                   *)

(* level_up_xp, from the level the check reads.                            *)
LevelUpXp(level) == LEVEL_UP_BASE + level * LEVEL_UP_FACTOR

(* The test of level_up had it been strict.                                *)
LevelUpDueStrict(objs) ==
  LET player == objs[PLAYER]
  IN (IF IsSome(player.fighter) THEN player.fighter[1].xp ELSE 0) > LevelUpXp(player.level)

LevelUpDue(objs) ==
  LET player == objs[PLAYER]
  IN (IF IsSome(player.fighter) THEN player.fighter[1].xp ELSE 0) >= LevelUpXp(player.level)

(* player.level += 1 and the log entry, before the menu opens.             *)
level_up_begin(objs, g) ==
  [objects |-> [objs EXCEPT ![PLAYER].level = @ + 1],
   game |-> [g EXCEPT !.log = LogAdd(@, "level_up")]]

(* The match on the choice had its third arm raised the power as well.     *)
StatDeltaBoth(fighter, choice) ==
  CASE choice = 0 -> [fighter EXCEPT !.base_max_hp = @ + 20, !.hp = @ + 20]
    [] choice = 1 -> [fighter EXCEPT !.base_power = @ + 1]
    [] choice = 2 -> [fighter EXCEPT !.base_defense = @ + 1, !.base_power = @ + 1]

StatDelta(fighter, choice) ==
  CASE choice = 0 -> [fighter EXCEPT !.base_max_hp = @ + 20, !.hp = @ + 20]
    [] choice = 1 -> [fighter EXCEPT !.base_power = @ + 1]
    [] choice = 2 -> [fighter EXCEPT !.base_defense = @ + 1]

(* After the menu returned Some(choice).  level_up_xp was computed before  *)
(* the level was incremented.                                              *)
level_up_choose(objs, choice) ==
  LET level_up_xp == LevelUpXp(objs[PLAYER].level - 1)
  IN [objs EXCEPT ![PLAYER].fighter[1] =
        StatDelta([@ EXCEPT !.xp = @ - level_up_xp], choice)]

---------------------------------------------------------------------------
(* Monster AI.                                                             *)

(* A variant that attacks without looking at the player's hp.              *)
ai_basic_relentless(monster_id, objs, fov, g, miss) ==
  LET monster == objs[monster_id]
  IN IF InFov(fov, monster.x, monster.y)
     THEN IF Distance2(monster, objs[PLAYER]) >= 4
          THEN [objects |-> move_towards(monster_id, objs[PLAYER].x, objs[PLAYER].y,
                                         g.map, objs),
                game |-> g, did |-> "move"]
          ELSE LET a == attack(monster, objs[PLAYER], g, miss)
               IN [objects |-> [objs EXCEPT ![monster_id] = a.self, ![PLAYER] = a.target],
                   game |-> [g EXCEPT !.log = a.log], did |-> "attack"]
     ELSE [objects |-> objs, game |-> g, did |-> "unseen"]

ai_basic(monster_id, objs, fov, g, miss) ==
  LET monster == objs[monster_id]
  IN IF InFov(fov, monster.x, monster.y)
     THEN IF Distance2(monster, objs[PLAYER]) >= 4
          THEN [objects |-> move_towards(monster_id, objs[PLAYER].x, objs[PLAYER].y,
                                         g.map, objs),
                game |-> g, did |-> "move"]
          ELSE IF IsSome(objs[PLAYER].fighter) /\ objs[PLAYER].fighter[1].hp > 0
          THEN LET two == mut_two(monster_id, PLAYER, objs)
               IN IF IsNone(two)
                  THEN [objects |-> objs, game |-> g, did |-> "panic"]
                  ELSE LET a == attack(two[1][1], two[1][2], g, miss)
                       IN [objects |-> [objs EXCEPT ![monster_id] = a.self,
                                                    ![PLAYER] = a.target],
                           game |-> [g EXCEPT !.log = a.log], did |-> "attack"]
          ELSE [objects |-> objs, game |-> g, did |-> "idle"]
     ELSE [objects |-> objs, game |-> g, did |-> "unseen"]

(* ai.take() empties the slot for the call and the result is put back.     *)
ai_take_turn(monster_id, g, objs, fov, miss) ==
  IF IsSome(objs[monster_id].ai)
  THEN LET taken == [objs EXCEPT ![monster_id].ai = None]
           r == ai_basic(monster_id, taken, fov, g, miss)
       IN [objects |-> [r.objects EXCEPT ![monster_id].ai = Some("Basic")],
           game |-> r.game, did |-> r.did]
  ELSE [objects |-> objs, game |-> g, did |-> "none"]

---------------------------------------------------------------------------
(* Dungeon generation.  The random draws are taken from bounded sets, and  *)
(* an operator that draws returns the set of its possible results.         *)

MaxMonsterDraw == 1         \* num_monsters is drawn from 0..min(max_monsters, this)
MaxItemDraw == 1            \* num_items is drawn from 0..min(max_items, this)

Rect(x, y, w, h) == [x1 |-> x, y1 |-> y, x2 |-> x + w, y2 |-> y + h]

(* A variant that takes the rectangle's first corner.                      *)
center_corner(r) == <<r.x1, r.y1>>

center(r) == <<(r.x1 + r.x2) \div 2, (r.y1 + r.y2) \div 2>>

(* A variant that takes rooms sharing only an edge as apart.               *)
intersect_with_inside(r, other) ==
  /\ r.x1 < other.x2
  /\ r.x2 > other.x1
  /\ r.y1 < other.y2
  /\ r.y2 > other.y1

intersect_with(r, other) ==
  /\ r.x1 <= other.x2
  /\ r.x2 >= other.x1
  /\ r.y1 <= other.y2
  /\ r.y2 >= other.y1

(* A variant that carves the room's first column and row too.              *)
create_room_whole(room, map) ==
  map \cup {[x1 |-> room.x1, y1 |-> room.y1, x2 |-> room.x2 - 1, y2 |-> room.y2 - 1]}

(* The tiles a carver empties, as one rectangle.                           *)
create_room(room, map) ==
  map \cup {[x1 |-> room.x1 + 1, y1 |-> room.y1 + 1,
             x2 |-> room.x2 - 1, y2 |-> room.y2 - 1]}

create_h_tunnel(x1, x2, y, map) ==
  map \cup {[x1 |-> Min(x1, x2), y1 |-> y, x2 |-> Max(x1, x2), y2 |-> y]}

create_v_tunnel(y1, y2, x, map) ==
  map \cup {[x1 |-> x, y1 |-> Min(y1, y2), x2 |-> x, y2 |-> Max(y1, y2)]}

(* A variant that searches the table from its first transition.           *)
from_dungeon_level_first(table, level) ==
  LET hits == {i \in 1..Len(table) : level >= table[i][1]}
  IN IF hits = {} THEN 0
     ELSE table[CHOOSE i \in hits : \A j \in hits : i <= j][2]

(* A transition table is a sequence of <<level, value>> pairs.             *)
from_dungeon_level(table, level) ==
  LET hits == {i \in 1..Len(table) : level >= table[i][1]}
  IN IF hits = {} THEN 0
     ELSE table[CHOOSE i \in hits : \A j \in hits : j <= i][2]

MaxMonstersTable == <<<<1, 2>>, <<4, 3>>, <<6, 5>>, <<10, 7>>>>

MonsterChance(kind) ==
  CASE kind = "poulet" -> <<<<1, 60>>, <<2, 30>>, <<4, 0>>>>
    [] kind = "orc" -> <<<<2, 30>>, <<5, 30>>>>
    [] kind = "troll" -> <<<<4, 15>>, <<5, 30>>, <<7, 60>>>>
    [] kind = "boss" -> <<<<3, 10>>, <<5, 15>>, <<7, 20>>>>

MonsterKinds == {"poulet", "orc", "troll", "boss"}

MaxItemsTable == <<<<1, 1>>, <<4, 2>>>>

ItemWeight(kind, level) ==
  CASE kind = "Heal" -> 35
    [] kind = "Lightning" -> from_dungeon_level(<<<<4, 10>>>>, level)
    [] kind = "Sword" -> from_dungeon_level(<<<<3, 5>>>>, level)
    [] kind = "Targe" -> from_dungeon_level(<<<<6, 5>>>>, level)
    [] kind = "Chest" -> from_dungeon_level(<<<<8, 5>>>>, level)

ItemKinds == {"Heal", "Lightning", "Sword", "Targe", "Chest"}

(* A variant that picks a species without regard to its weight.           *)
MonsterChoicesUniform(level) == MonsterKinds

(* WeightedIndex::sample returns an index of positive weight.              *)
MonsterChoices(level) ==
  {k \in MonsterKinds : from_dungeon_level(MonsterChance(k), level) > 0}

ItemChoices(level) == {k \in ItemKinds : ItemWeight(k, level) > 0}

LevelMultiplier(base, level) == (base + level) \div MONSTER_LEVEL_UP_FACTOR

Monster(x, y, name, fighter) ==
  [ObjectNew(x, y, name, TRUE) EXCEPT
     !.fighter = Some(fighter), !.ai = Some("Basic"), !.alive = TRUE]

NewMonster(kind, x, y, level) ==
  LET hp_multiplier == LevelMultiplier(MONSTER_LEVEL_UP_BASE, level)
      attack_multiplier == LevelMultiplier(MONSTER_ATTACK_LEVEL_UP_BASE, level)
      defense_multiplier == LevelMultiplier(MONSTER_DEFENSE_LEVEL_UP_BASE, level)
  IN CASE kind = "orc" ->
            Monster(x, y, <<"orc">>,
                    Fighter(10 + hp_multiplier, 10 + hp_multiplier, defense_multiplier,
                            4 + attack_multiplier, "Monster", 35))
       [] kind = "poulet" ->
            Monster(x, y, <<"poulet">>, Fighter(15, 15, 0, 3, "Monster", 20))
       [] kind = "troll" ->
            Monster(x, y, <<"troll">>,
                    Fighter(15 + hp_multiplier, 15 + hp_multiplier, 1 + defense_multiplier,
                            5 + attack_multiplier, "Monster", 55))
       [] kind = "boss" ->
            Monster(x, y, <<"BOSS">>,
                    Fighter(60 + hp_multiplier, 60 + hp_multiplier, 4 + defense_multiplier,
                            8 + attack_multiplier, "Monster", 110))

NewItem(kind, x, y) ==
  CASE kind = "Heal" ->
         [ObjectNew(x, y, <<"healing potion">>, FALSE) EXCEPT !.item = Some("Heal")]
    [] kind = "Lightning" ->
         [ObjectNew(x, y, <<"scroll of lightning bolt">>, FALSE) EXCEPT
            !.item = Some("Lightning")]
    [] kind = "AttackBuff" ->
         [ObjectNew(x, y, <<"attack scroll">>, FALSE) EXCEPT !.item = Some("AttackBuff")]
    [] kind = "Sword" ->
         [ObjectNew(x, y, <<"sword">>, FALSE) EXCEPT
            !.item = Some("Sword"),
            !.equipment = Some(Equipment("RightHand", FALSE, 0, 3, 0))]
    [] kind = "Chest" ->
         [ObjectNew(x, y, <<"chainmail armor">>, FALSE) EXCEPT
            !.item = Some("Chest"),
            !.equipment = Some(Equipment("Chest", FALSE, 10, 0, 2))]
    [] kind = "Targe" ->
         [ObjectNew(x, y, <<"targe">>, FALSE) EXCEPT
            !.item = Some("Targe"),
            !.equipment = Some(Equipment("LeftHand", FALSE, 0, 0, 1))]

(* The tiles drawn for a spawn: gen_range(x1 + 1, x2) by gen_range(y1 + 1, *)
(* y2) covers the room's interior; the draws taken are the tiles at the    *)
(* given offsets from its centre.                                          *)
SpawnSpots(room, offsets) ==
  LET c == center(room)
  IN {t \in {<<c[1] + o[1], c[2] + o[2]>> : o \in offsets} :
        /\ room.x1 + 1 <= t[1] /\ t[1] < room.x2
        /\ room.y1 + 1 <= t[2] /\ t[2] < room.y2}

RECURSIVE PlaceMonsters(_, _, _, _, _, _)
(* The monster loop of place_object with n iterations left.                *)
PlaceMonsters(n, room, map, objs, level, offsets) ==
  IF n = 0 THEN {objs}
  ELSE UNION {PlaceMonsters(n - 1, room, map,
                            IF ~is_blocked(t[1], t[2], map, objs)
                            THEN Append(objs, NewMonster(k, t[1], t[2], level))
                            ELSE objs,
                            level, offsets)
              : <<t, k>> \in SpawnSpots(room, offsets) \X MonsterChoices(level)}

RECURSIVE PlaceItems(_, _, _, _, _, _)
(* The item loop of place_object with n iterations left.                   *)
PlaceItems(n, room, map, objs, level, offsets) ==
  IF n = 0 THEN {objs}
  ELSE UNION {PlaceItems(n - 1, room, map,
                         IF ~is_blocked(t[1], t[2], map, objs)
                         THEN Append(objs, NewItem(k, t[1], t[2]))
                         ELSE objs,
                         level, offsets)
              : <<t, k>> \in SpawnSpots(room, offsets) \X ItemChoices(level)}

(* place_object: the entity stores it can leave.                           *)
place_object(room, map, objs, level, offsets) ==
  LET max_monsters == from_dungeon_level(MaxMonstersTable, level)
      max_items == from_dungeon_level(MaxItemsTable, level)
      with_monsters ==
        UNION {PlaceMonsters(n, room, map, objs, level, offsets)
               : n \in 0..Min(max_monsters, MaxMonsterDraw)}
  IN UNION {UNION {PlaceItems(n, room, map, o, level, offsets)
                   : n \in 0..Min(max_items, MaxItemDraw)}
            : o \in with_monsters}

(* A variant that rejects a room when it intersects all the rooms          *)
(* accepted, where the code rejects it when it intersects any.             *)
RoomStepAll(st, new_room, level, draws) ==
  IF \A i \in 1..Len(st.rooms) : intersect_with(new_room, st.rooms[i])
  THEN {st}
  ELSE LET map1 == create_room(new_room, st.map)
           new == center(new_room)
       IN IF st.rooms = <<>>
          THEN {[map |-> map1,
                 objects |-> [o EXCEPT ![PLAYER] = SetPos(@, new[1], new[2])],
                 rooms |-> Append(st.rooms, new_room)]
                : o \in place_object(new_room, map1, st.objects, level, draws.offsets)}
          ELSE LET prev == center(st.rooms[Len(st.rooms)])
                   h_first == create_v_tunnel(prev[2], new[2], new[1],
                                create_h_tunnel(prev[1], new[1], prev[2], map1))
                   v_first == create_h_tunnel(prev[1], new[1], new[2],
                                create_v_tunnel(prev[2], new[2], prev[1], map1))
               IN {[map |-> IF mo[1] THEN h_first ELSE v_first, objects |-> mo[2],
                    rooms |-> Append(st.rooms, new_room)]
                   : mo \in draws.coins
                             \X place_object(new_room, map1, st.objects, level,
                                             draws.offsets)}

(* One iteration of make_map's loop from st = [map, objects, rooms] with   *)
(* the room drawn: the states it can leave.                                *)
RoomStep(st, new_room, level, draws) ==
  IF \E i \in 1..Len(st.rooms) : intersect_with(new_room, st.rooms[i])
  THEN {st}
  ELSE LET map1 == create_room(new_room, st.map)
           new == center(new_room)
       IN IF st.rooms = <<>>
          THEN {[map |-> map1,
                 objects |-> [o EXCEPT ![PLAYER] = SetPos(@, new[1], new[2])],
                 rooms |-> Append(st.rooms, new_room)]
                : o \in place_object(new_room, map1, st.objects, level, draws.offsets)}
          ELSE LET prev == center(st.rooms[Len(st.rooms)])
                   h_first == create_v_tunnel(prev[2], new[2], new[1],
                                create_h_tunnel(prev[1], new[1], prev[2], map1))
                   v_first == create_h_tunnel(prev[1], new[1], new[2],
                                create_v_tunnel(prev[2], new[2], prev[1], map1))
               IN {[map |-> IF mo[1] THEN h_first ELSE v_first, objects |-> mo[2],
                    rooms |-> Append(st.rooms, new_room)]
                   : mo \in draws.coins
                             \X place_object(new_room, map1, st.objects, level,
                                             draws.offsets)}

(* The rooms [x, y, w, h] the generator can draw with n iterations of the  *)
(* loop left: any of draws.rooms, or those draws.schedule gives for the    *)
(* iteration when the draws are scheduled.                                 *)
RoomDraws(draws, n) ==
  IF "schedule" \in DOMAIN draws THEN draws.schedule[MAX_ROOMS - n + 1] ELSE draws.rooms

RECURSIVE MakeRooms(_, _, _, _)
(* The loop of make_map with n iterations left, from any state of S.       *)
MakeRooms(n, S, level, draws) ==
  IF n = 0 THEN S
  ELSE MakeRooms(n - 1,
                 UNION {RoomStep(sd[1], Rect(sd[2].x, sd[2].y, sd[2].w, sd[2].h),
                                 level, draws)
                        : sd \in S \X RoomDraws(draws, n)},
                 level, draws)

Stairs(x, y) == ObjectNew(x, y, <<"stairs">>, FALSE)

(* A variant without objects.truncate(1).                                  *)
make_map_keeping(objs, level, draws) ==
  LET start == [map |-> {}, objects |-> objs, rooms |-> <<>>]
  IN {IF st.rooms = <<>>
      THEN [map |-> st.map, objects |-> st.objects, rooms |-> st.rooms, panic |-> TRUE]
      ELSE LET last_room == center(st.rooms[Len(st.rooms)])
           IN [map |-> st.map,
               objects |-> Append(st.objects, Stairs(last_room[1], last_room[2])),
               rooms |-> st.rooms, panic |-> FALSE]
      : st \in MakeRooms(MAX_ROOMS, {start}, level, draws)}

(* make_map: the [map, objects] pairs it can return, with the rooms it     *)
(* accepted.  draws.rooms is the set of rooms [x, y, w, h], draws.offsets  *)
(* the set of spawn offsets and draws.coins the set of outcomes of         *)
(* rand::random() the generator can draw.  With no room accepted,          *)
(* rooms[rooms.len() - 1] panics before the stairs are pushed.             *)
make_map(objs, level, draws) ==
  LET start == [map |-> {}, objects |-> SubSeq(objs, 1, 1), rooms |-> <<>>]
  IN {IF st.rooms = <<>>
      THEN [map |-> st.map, objects |-> st.objects, rooms |-> st.rooms, panic |-> TRUE]
      ELSE LET last_room == center(st.rooms[Len(st.rooms)])
           IN [map |-> st.map,
               objects |-> Append(st.objects, Stairs(last_room[1], last_room[2])),
               rooms |-> st.rooms, panic |-> FALSE]
      : st \in MakeRooms(MAX_ROOMS, {start}, level, draws)}

---------------------------------------------------------------------------
(* The player's intents.                                                   *)

(* What the last step did: the operation (for handle_keys, with the key    *)
(* code it was given), the index it acted on (0 when none), the            *)
(* forced-miss draw of an attack and the operation's result.               *)
Last(op, id, miss, result) ==
  [op |-> op, key |-> "", id |-> id, miss |-> miss, result |-> result, fov |-> {}]

(* What the generator draws in a game: one room, drawn again and rejected  *)
(* in the later iterations, and spawns on the tile east of its centre.     *)
GameDraws ==
  [rooms |-> {[x |-> 3, y |-> 3, w |-> 6, h |-> 6]}, offsets |-> {<<1, 0>>},
   coins |-> BOOLEAN]

(* The tiles the oracle can report for a query about the entities ids.     *)
FovDraws(origin, objs, ids) ==
  SUBSET {Pos(objs[i]) : i \in {j \in ids :
            (objs[j].x - origin[1]) * (objs[j].x - origin[1])
              + (objs[j].y - origin[2]) * (objs[j].y - origin[2])
            <= TORCH_RADIUS * TORCH_RADIUS}}

Monsters(objs) ==
  {i \in 1..Len(objs) : i # PLAYER /\ IsSome(objs[i].fighter) /\ IsSome(objs[i].ai)}

(* player_move_or_attack: the outcomes over the forced-miss draw.          *)
player_move_or_attack(dx, dy, objs, g) ==
  LET x == objs[PLAYER].x + dx
      y == objs[PLAYER].y + dy
      Hit(object) == IsSome(object.fighter) /\ Pos(object) = <<x, y>>
      target_id == Position({i \in 1..Len(objs) : Hit(objs[i])})
      two == mut_two(PLAYER, target_id[1], objs)
  IN IF IsSome(target_id)
     THEN IF IsNone(two)
          THEN {[objects |-> objs, game |-> g,
                 last |-> Last("panic", target_id[1], FALSE, "")]}
          ELSE {LET a == attack(two[1][1], two[1][2], g, miss)
                IN [objects |-> [objs EXCEPT ![PLAYER] = a.self,
                                             ![target_id[1]] = a.target],
                    game |-> [g EXCEPT !.log = a.log],
                    last |-> Last("attack", target_id[1], miss, "")]
                : miss \in BOOLEAN}
     ELSE {[objects |-> move_by(PLAYER, dx, dy, g.map, objs), game |-> g,
            last |-> Last("move", 0, FALSE, "")]}

(* next_level: the outcomes over the generator's draws.                    *)
next_level(objs, g) ==
  LET g1 == [g EXCEPT !.log = LogAdd(@, "rest")]
      heal_hp == max_hp(objs[PLAYER], g1) \div 2
      healed == [objs EXCEPT ![PLAYER] = cast(@, "heal", heal_hp, g1)]
      g2 == [g1 EXCEPT !.log = LogAdd(@, "descend"), !.dungeon_level = @ + 1]
  IN {[objects |-> m.objects, game |-> [g2 EXCEPT !.map = m.map]]
      : m \in make_map(healed, g2.dungeon_level, GameDraws)}

(* A variant that looks for stairs on any tile.                            *)
player_on_stairs_anywhere(objs) ==
  \E i \in 1..Len(objs) : objs[i].name = <<"stairs">>

(* The test of the descend key.                                            *)
player_on_stairs(objs) ==
  \E i \in 1..Len(objs) :
    Pos(objs[i]) = Pos(objs[PLAYER]) /\ objs[i].name = <<"stairs">>

(* A variant with a key that stands still.                                 *)
DirectionsWithRest ==
  [Up |-> <<0, -1>>, Down |-> <<0, 0>>, Left |-> <<-1, 0>>, Right |-> <<1, 0>>]

Directions ==
  [Up |-> <<0, -1>>, Down |-> <<0, 1>>, Left |-> <<-1, 0>>, Right |-> <<1, 0>>]

KeyCodes ==
  {"Up", "Down", "Left", "Right", "f", "i", "d", "Spacebar", "Tab", "Escape",
   "AltEnter", "Other"}

(* A key event with what the inventory menu, if one opens, returns.        *)
Keys(g) ==
  {[code |-> c, menu |-> None] : c \in KeyCodes}
    \cup {[code |-> c, menu |-> Some(i)] : c \in {"i", "d"}, i \in 1..Len(g.inventory)}

(* The search of the pick-up key had it left out item.is_some().           *)
AnythingHere(objs) ==
  Position({i \in 1..Len(objs) : Pos(objs[i]) = Pos(objs[PLAYER])})

(* The search of the pick-up key: the first item on the player's tile.     *)
ItemHere(objs) ==
  Position({i \in 1..Len(objs) :
              Pos(objs[i]) = Pos(objs[PLAYER]) /\ IsSome(objs[i].item)})

(* A variant that takes the player for alive whatever the flag.            *)
PlayerAliveAlways(objs) == TRUE

(* let player_alive = objects[PLAYER].alive                                *)
PlayerAlive(objs) == objs[PLAYER].alive

(* handle_keys: the outcomes [objects, game, action, last] over the draws  *)
(* made while the key is handled.                                          *)
handle_keys(k, origin, objs, g) ==
  LET player_alive == PlayerAlive(objs)
      Idle(op) == {[objects |-> objs, game |-> g, action |-> "DidntTakeTurn",
                    last |-> Last(op, 0, FALSE, "")]}
  IN CASE k.code = "AltEnter" -> Idle("fullscreen")
       [] k.code = "Escape" ->
            {[objects |-> objs, game |-> g, action |-> "Exit",
              last |-> Last("exit", 0, FALSE, "")]}
       [] k.code \in DOMAIN Directions /\ player_alive ->
            {[objects |-> o.objects, game |-> o.game, action |-> "TookTurn",
              last |-> o.last]
             : o \in player_move_or_attack(Directions[k.code][1], Directions[k.code][2],
                                           objs, g)}
       [] k.code = "f" /\ player_alive ->
            LET item_id == ItemHere(objs)
            IN IF IsSome(item_id)
               THEN LET p == pick_item_up(item_id[1], objs, g)
                    IN {[objects |-> p.objects, game |-> p.game,
                         action |-> "DidntTakeTurn",
                         last |-> Last("pick_up", item_id[1], FALSE, "")]}
               ELSE Idle("pick_up")
       [] k.code = "i" /\ player_alive ->
            IF IsSome(k.menu)
            THEN {LET u == use_item(k.menu[1], objs, g, fov)
                  IN [objects |-> u.objects, game |-> u.game, action |-> u.action,
                      last |-> [Last("use", k.menu[1], FALSE, u.result) EXCEPT !.fov = fov]]
                  : fov \in IF g.inventory[k.menu[1]].item = Some("Lightning")
                            THEN FovDraws(origin, objs, Monsters(objs)) ELSE {{}}}
            ELSE Idle("use")
       [] k.code = "Spacebar" /\ player_alive ->
            IF player_on_stairs(objs)
            THEN {[objects |-> n.objects, game |-> n.game, action |-> "DidntTakeTurn",
                   last |-> Last("descend", 0, FALSE, "descended")]
                  : n \in next_level(objs, g)}
            ELSE Idle("descend")
       [] k.code = "Tab" /\ player_alive -> Idle("character")
       [] k.code = "d" /\ player_alive ->
            IF IsSome(k.menu)
            THEN LET d == drop_item(k.menu[1], objs, g)
                 IN {[objects |-> d.objects, game |-> d.game, action |-> "DidntTakeTurn",
                      last |-> Last("drop", k.menu[1], FALSE, "")]}
            ELSE Idle("drop")
       [] OTHER -> Idle("ignored")

---------------------------------------------------------------------------
(* Starting a game.                                                        *)

Dagger ==
  [ObjectNew(0, 0, <<"dagger">>, FALSE) EXCEPT
     !.item = Some("Sword"),
     !.equipment = Some(Equipment("LeftHand", TRUE, 0, 3, 0))]

NewPlayer ==
  [ObjectNew(0, 0, PlayerName, TRUE) EXCEPT
     !.fighter = Some(Fighter(100, 100, 1, 4, "Player", 0)), !.alive = TRUE]

(* new_game: the (objects, game) pairs it can return.                      *)
new_game ==
  {[objects |-> m.objects,
    game |-> [map |-> m.map, log |-> <<"welcome">>, inventory |-> <<Dagger>>,
              dungeon_level |-> 1]]
   : m \in make_map(<<NewPlayer>>, 1, GameDraws)}

(* A game in progress, as load_game hands it to play_game: a floor as the  *)
(* generator leaves it, and the player and inventory as earlier play left  *)
(* them.  An inventory holds only kinds that spawn at or above the floor.  *)
Carried(kind, equipped) ==
  LET item == NewItem(kind, 0, 0)
  IN IF equipped THEN [item EXCEPT !.equipment[1].equipped = TRUE] ELSE item

Veteran(hp, xp, level) ==
  [NewPlayer EXCEPT !.fighter[1].hp = hp, !.fighter[1].xp = xp, !.level = level]

(* Monsters already hurt keep at most hp hit points.                       *)
Wounded(objs, hp) ==
  [i \in 1..Len(objs) |->
     IF i # PLAYER /\ IsSome(objs[i].fighter) /\ objs[i].fighter[1].hp > hp
     THEN [objs[i] EXCEPT !.fighter[1].hp = hp]
     ELSE objs[i]]

Scenarios ==
  { [level |-> 1, player |-> Veteran(2, 349, 1), monster_hp |-> 7,
     inventory |-> <<Dagger, Carried("Heal", FALSE)>>],
    [level |-> 8, player |-> Veteran(110, 350, 1), monster_hp |-> 100,
     inventory |-> <<Dagger, Carried("Lightning", FALSE), Carried("Targe", FALSE),
                     Carried("Chest", TRUE), Carried("Heal", FALSE)>>] }

Resume(sc) ==
  {[objects |-> Wounded(m.objects, sc.monster_hp),
    game |-> [map |-> m.map, log |-> <<>>, inventory |-> sc.inventory,
              dungeon_level |-> sc.level]]
   : m \in make_map(<<sc.player>>, sc.level, GameDraws)}

StartStates == new_game \cup UNION {Resume(sc) : sc \in Scenarios}

---------------------------------------------------------------------------
(* Saving and loading.  The file holds the JSON text serde_json writes for *)
(* the pair (objects, game): a struct is an object of its fields, a Vec    *)
(* and a tuple are arrays, a unit variant is its name, None is null and    *)
(* Some(v) is v.  A value that may be null is kept with its JSON type.     *)
(* The grid of tiles is kept as the set of the tiles that are not blocked. *)

Null == [type |-> "null"]

MapTiles == (0..(MAP_WIDTH - 1)) \X (0..(MAP_HEIGHT - 1))

OptionToJson(opt) == IF IsNone(opt) THEN Null ELSE [type |-> "value", value |-> opt[1]]

OptionFromJson(j) == IF j.type = "null" THEN None ELSE Some(j.value)

ObjectToJson(o) ==
  [o EXCEPT !.fighter = OptionToJson(@), !.ai = OptionToJson(@),
            !.item = OptionToJson(@), !.equipment = OptionToJson(@)]

(* A variant that leaves ai at its default, as for a skipped field.        *)
ObjectFromJsonWithoutAi(j) ==
  [j EXCEPT !.fighter = OptionFromJson(@), !.ai = None,
            !.item = OptionFromJson(@), !.equipment = OptionFromJson(@)]

ObjectFromJson(j) ==
  [j EXCEPT !.fighter = OptionFromJson(@), !.ai = OptionFromJson(@),
            !.item = OptionFromJson(@), !.equipment = OptionFromJson(@)]

(* The tiles of the grid that are not blocked.                             *)
OpenTiles(map) ==
  UNION {{t \in (r.x1..r.x2) \X (r.y1..r.y2) : t \in MapTiles} : r \in map}

(* serde_json::to_string(&(objects, game))                                 *)
to_string(objs, g) ==
  <<[k \in 1..Len(objs) |-> ObjectToJson(objs[k])],
    [map |-> OpenTiles(g.map),
     log |-> g.log,
     inventory |-> [k \in 1..Len(g.inventory) |-> ObjectToJson(g.inventory[k])],
     dungeon_level |-> g.dungeon_level]>>

Err == [ok |-> FALSE]

Ok(objs, g) == [ok |-> TRUE, objects |-> objs, game |-> g]

(* serde_json::from_str::<(Vec<Object>, Game)>: a text that is not a pair  *)
(* is an error.                                                            *)
from_str(text) ==
  IF Len(text) # 2 THEN Err
  ELSE Ok([k \in 1..Len(text[1]) |-> ObjectFromJson(text[1][k])],
          [map |-> {[x1 |-> t[1], y1 |-> t[2], x2 |-> t[1], y2 |-> t[2]]
                    : t \in text[2].map},
           log |-> text[2].log,
           inventory |-> [k \in 1..Len(text[2].inventory) |->
                            ObjectFromJson(text[2].inventory[k])],
           dungeon_level |-> text[2].dungeon_level])

(* save_game: the file it leaves.                                          *)
save_game(objs, g) == Some(to_string(objs, g))

(* load_game: File::open fails when there is no file, from_str when the    *)
(* text does not parse.                                                    *)
load_game(file) == IF IsNone(file) THEN Err ELSE from_str(file[1])

---------------------------------------------------------------------------
(* play_game.                                                              *)

MaxTurns == 2               \* iterations of play_game's loop

Init ==
  /\ \E start \in StartStates :
       /\ objects = start.objects
       /\ game = start.game
  /\ pc = "level_up"
  /\ player_action = "DidntTakeTurn"
  /\ ai_id = 0
  /\ turn = 0
  /\ last = Last("start", 0, FALSE, "")
  /\ savegame = None
  /\ fov_origin = <<-1, -1>>

(* The top of an iteration: render_all, whose compute_fov leaves the field *)
(* of view computed from the player's tile, then level_up up to its menu.  *)
LevelUpCheck ==
  /\ pc = "level_up"
  /\ turn < MaxTurns
  /\ turn' = turn + 1
  /\ IF LevelUpDue(objects)
     THEN LET b == level_up_begin(objects, [game EXCEPT !.log = <<>>])
          IN /\ objects' = b.objects
             /\ game' = b.game
             /\ pc' = "choice"
             /\ last' = Last("level_up", 0, FALSE, "due")
     ELSE /\ objects' = objects
          /\ game' = [game EXCEPT !.log = <<>>]
          /\ pc' = "keys"
          /\ last' = Last("level_up", 0, FALSE, "not_due")
  /\ fov_origin' = Pos(objects[PLAYER])
  /\ UNCHANGED <<player_action, ai_id, savegame>>

(* A variant whose loop ends on an answer that is no choice.               *)
LevelUpChoiceOnce ==
  /\ pc = "choice"
  /\ \/ \E choice \in 0..2 :
          /\ objects' = level_up_choose(objects, choice)
          /\ last' = Last("choice", choice, FALSE, "")
     \/ /\ objects' = objects
        /\ last' = Last("menu", 0, FALSE, "None")
  /\ pc' = "keys"
  /\ UNCHANGED <<game, player_action, ai_id, turn, savegame, fov_origin>>

(* The menu of level_up returns: a choice, or None, on which the loop      *)
(* around the menu opens it again.                                         *)
LevelUpChoice ==
  /\ pc = "choice"
  /\ \/ /\ \E choice \in 0..2 :
             /\ objects' = level_up_choose(objects, choice)
             /\ last' = Last("choice", choice, FALSE, "")
        /\ pc' = "keys"
     \/ /\ objects' = objects
        /\ last' = Last("menu", 0, FALSE, "None")
        /\ pc' = "choice"
  /\ UNCHANGED <<game, player_action, ai_id, turn, savegame, fov_origin>>

(* The AI-bearing entities the sweep has yet to visit, from index id on.   *)
AiLeft(objs, id) == {i \in id..Len(objs) : IsSome(objs[i].ai)}

(* A variant that sweeps after every action of a living player.            *)
SweepDueAlways(objs, action) == objs[PLAYER].alive

(* The test that opens the AI sweep.                                       *)
SweepDue(objs, action) == objs[PLAYER].alive /\ action # "DidntTakeTurn"

(* handle_keys, then save_game and the break on Exit, else the test that   *)
(* opens the AI sweep.                                                     *)
HandleKeys ==
  /\ pc = "keys"
  /\ \E k \in Keys(game) :
       \E out \in handle_keys(k, fov_origin, objects, game) :
         /\ objects' = out.objects
         /\ game' = out.game
         /\ player_action' = out.action
         /\ last' = [out.last EXCEPT !.key = k.code]
         /\ IF out.action = "Exit"
            THEN /\ savegame' = save_game(out.objects, out.game)
                 /\ pc' = "exit"
                 /\ ai_id' = ai_id
            ELSE IF out.last.op = "panic"
            THEN /\ savegame' = savegame
                 /\ pc' = "panic"
                 /\ ai_id' = ai_id
            ELSE /\ savegame' = savegame
                 /\ IF /\ SweepDue(out.objects, out.action)
                       /\ AiLeft(out.objects, 1) # {}
                    THEN pc' = "ai" /\ ai_id' = 1
                    ELSE pc' = "level_up" /\ ai_id' = ai_id
  /\ UNCHANGED <<turn, fov_origin>>

(* One step of the sweep: the next AI-bearing entity takes its turn.       *)
AiStep ==
  /\ pc = "ai"
  /\ LET id == CHOOSE i \in AiLeft(objects, ai_id) : \A j \in AiLeft(objects, ai_id) : i <= j
     IN \E fov \in FovDraws(fov_origin, objects, {id}), miss \in BOOLEAN :
          LET r == ai_take_turn(id, game, objects, fov, miss)
          IN /\ r.did = "attack" \/ ~miss
             /\ objects' = r.objects
             /\ game' = r.game
             /\ last' = [Last("ai", id, miss, r.did) EXCEPT !.fov = fov]
             /\ IF r.did = "panic"
                THEN pc' = "panic" /\ ai_id' = ai_id
                ELSE IF AiLeft(r.objects, id + 1) # {}
                THEN pc' = "ai" /\ ai_id' = id + 1
                ELSE pc' = "level_up" /\ ai_id' = ai_id
  /\ UNCHANGED <<player_action, turn, savegame, fov_origin>>

Next == LevelUpCheck \/ LevelUpChoice \/ HandleKeys \/ AiStep

Spec == Init /\ [][Next]_vars

---------------------------------------------------------------------------
(* Properties of the equipment, the stats and death.                       *)

Slots == {"RightHand", "LeftHand", "Chest"}

(* The inventory indices of the items equipped in a slot.                  *)
EquippedIn(inventory, slot) ==
  {i \in 1..Len(inventory) :
     /\ IsSome(inventory[i].equipment)
     /\ inventory[i].equipment[1].equipped
     /\ inventory[i].equipment[1].slot = slot}

(* C1: in every reachable state, for each of the slots RightHand, LeftHand *)
(* and Chest, at most one item of the inventory has equipped = true.       *)
C1_OneEquippedPerSlot ==
  \A slot \in Slots : Cardinality(EquippedIn(game.inventory, slot)) <= 1

(* The targe was equipped by a toggle while the dagger, of the same slot,  *)
(* was: the dagger is now dequipped.                                       *)
C1_Witness ==
  /\ last.op = "use"
  /\ last.result = "UseAndKept"
  /\ \E i, j \in 1..Len(game.inventory) :
       /\ i # j
       /\ i = last.id
       /\ IsSome(game.inventory[i].equipment)
       /\ IsSome(game.inventory[j].equipment)
       /\ game.inventory[i].equipment[1].slot = game.inventory[j].equipment[1].slot
       /\ game.inventory[i].equipment[1].equipped
       /\ ~game.inventory[j].equipment[1].equipped
       /\ game.inventory[j].name = <<"dagger">>

(* The sum of one bonus over the equipped items of an inventory.           *)
EquippedBonus(inventory, bonus) ==
  LET upto[k \in 0..Len(inventory)] ==
        IF k = 0 THEN 0
        ELSE upto[k - 1]
             + (IF /\ IsSome(inventory[k].equipment)
                   /\ inventory[k].equipment[1].equipped
                THEN inventory[k].equipment[1][bonus]
                ELSE 0)
  IN upto[Len(inventory)]

(* C2: the player's power, defense and max_hp are the base value of its    *)
(* Fighter plus the sum of that bonus over the equipped inventory items;   *)
(* those of every other entity are exactly the base value of its Fighter,  *)
(* whatever the inventory holds.                                           *)
C2_StatsAreBasePlusEquipped ==
  \A i \in 1..Len(objects) :
    LET o == objects[i]
        Base(stat) == IF IsSome(o.fighter) THEN o.fighter[1][stat] ELSE 0
        Worn(bonus) == IF i = PLAYER THEN EquippedBonus(game.inventory, bonus) ELSE 0
    IN /\ power(o, game) = Base("base_power") + Worn("power_bonus")
       /\ defense(o, game) = Base("base_defense") + Worn("defense_bonus")
       /\ max_hp(o, game) = Base("base_max_hp") + Worn("max_hp_bonus")

(* The player, wearing two items with bonuses, has struck a monster.       *)
C2_Witness ==
  /\ last.op = "attack"
  /\ ~last.miss
  /\ Cardinality({i \in 1..Len(game.inventory) : IsEquipped(game.inventory[i])}) >= 2
  /\ power(objects[PLAYER], game) > objects[PLAYER].fighter[1].base_power
  /\ defense(objects[PLAYER], game) > objects[PLAYER].fighter[1].base_defense
  /\ max_hp(objects[PLAYER], game) > objects[PLAYER].fighter[1].base_max_hp
  /\ \E i \in 2..Len(objects) : IsSome(objects[i].fighter)

(* C3: between the steps of play_game, every entity of the store with      *)
(* alive = true has a Fighter whose hp is above 0.                         *)
C3_AliveHasHp ==
  \A i \in 1..Len(objects) :
    objects[i].alive =>
      IsSome(objects[i].fighter) /\ objects[i].fighter[1].hp > 0

(* A monster has died beside entities that live on.                        *)
C3_Witness ==
  /\ \E i \in 1..Len(objects) :
       ~objects[i].alive /\ Head(objects[i].name) = "remains of"
  /\ objects[PLAYER].alive
  /\ objects[PLAYER].fighter[1].hp > 0

(* Entity i had hp above 0 and the step, one that calls take_damage, left  *)
(* it with hp at or below 0 (a Fighter taken away was at or below 0).      *)
Fell(i) ==
  /\ last'.op \in {"attack", "ai", "use"}
  /\ i \in 1..Len(objects')
  /\ IsSome(objects[i].fighter)
  /\ objects[i].fighter[1].hp > 0
  /\ IsNone(objects'[i].fighter) \/ objects'[i].fighter[1].hp <= 0

Inert(o) == IsNone(o.fighter) /\ IsNone(o.ai) /\ ~o.blocks

(* C4 as stated: whenever take_damage brings the hp of an entity, player   *)
(* or monster, to 0 or below, the entity then has alive = false and is     *)
(* inert remains: no Fighter, no AI, blocks = false.                       *)
C4_DeathLeavesRemains ==
  [][\A i \in 1..Len(objects) :
       Fell(i) => ~objects'[i].alive /\ Inert(objects'[i])]_vars

(* C4: whenever take_damage brings the hp of an entity to 0 or below, the  *)
(* entity then has alive = false; one whose death behaviour is Monster is  *)
(* inert remains (no Fighter, no AI, blocks = false, renamed), and one     *)
(* whose death behaviour is Player keeps its Fighter, with hp at or below  *)
(* 0, its name and its blocks flag.                                        *)
C4_DeathByBehaviour ==
  [][\A i \in 1..Len(objects) :
       Fell(i) =>
         /\ ~objects'[i].alive
         /\ IF objects[i].fighter[1].on_death = "Monster"
            THEN /\ Inert(objects'[i])
                 /\ objects'[i].name = Remains(objects[i].name)
            ELSE /\ IsSome(objects'[i].fighter)
                 /\ objects'[i].fighter[1].hp <= 0
                 /\ objects'[i].blocks = objects[i].blocks
                 /\ objects'[i].name = objects[i].name]_vars

(* The player has been killed by a monster's attack.                       *)
C4_Witness ==
  /\ last.op = "ai"
  /\ last.result = "attack"
  /\ ~objects[PLAYER].alive
  /\ IsSome(objects[PLAYER].fighter)
  /\ objects[PLAYER].fighter[1].hp <= 0
  /\ objects[PLAYER].blocks

---------------------------------------------------------------------------
(* take_damage called on its own, on any entity of a game and with any of  *)
(* the damages drawn, whatever state earlier calls left the entity in.     *)

DamageDraws == {0, 1, LIGHTNING_DAMAGE}

TakeDamageCall ==
  /\ turn < MaxTurns
  /\ \E id \in 1..Len(objects), damage \in DamageDraws :
       LET td == take_damage(objects[id], damage, game.log)
       IN /\ objects' = [objects EXCEPT ![id] = td.obj]
          /\ game' = [game EXCEPT !.log = td.log]
          /\ last' = Last("take_damage", id, FALSE,
                          IF IsSome(td.ret) THEN "Some" ELSE "None")
  /\ turn' = turn + 1
  /\ UNCHANGED <<pc, player_action, ai_id, savegame, fov_origin>>

NextTakeDamage == TakeDamageCall

SpecTakeDamage == Init /\ [][NextTakeDamage]_vars

(* An entity whose hp is at or below 0, or that has died.                  *)
AlreadyDead(o) ==
  \/ IsSome(o.fighter) /\ o.fighter[1].hp <= 0
  \/ Head(o.name) = "remains of"

(* C5: a call of take_damage on an entity whose hp is already at or below  *)
(* 0, or that has already died, with any damage, does not run the death    *)
(* callback again (the log gains no death message) and returns None.       *)
C5_TakeDamageIdempotent ==
  [][(last'.op = "take_damage" /\ AlreadyDead(objects[last'.id])) =>
       (last'.result = "None" /\ game'.log = game.log)]_vars

---------------------------------------------------------------------------
(* Properties of attack.                                                   *)

(* The step was an attack: the player's on entity last'.id, or that of     *)
(* monster last'.id on the player.                                         *)
AttackStep == last'.op = "attack" \/ (last'.op = "ai" /\ last'.result = "attack")

Attacker == IF last'.op = "attack" THEN PLAYER ELSE last'.id

Defender == IF last'.op = "attack" THEN last'.id ELSE PLAYER

Outcomes == {"hit", "miss", "no_effect"}

(* C6: an attack whose forced-miss draw is not triggered deals damage =    *)
(* power(attacker) - defense(defender); damage above 0 lowers the          *)
(* defender's hp by exactly damage (to 0 or below when the death callback  *)
(* took the Fighter away); with damage at or below 0, or a forced miss,    *)
(* the defender's Fighter is unchanged; and the log gains exactly one      *)
(* message for the outcome: hit, miss or no effect.                        *)
C6_AttackOutcome ==
  [][AttackStep =>
       LET a == objects[Attacker]
           d == objects[Defender]
           d2 == objects'[Defender]
           damage == power(a, game) - defense(d, game)
           hits == ~last'.miss /\ damage > 0
           added == SubSeq(game'.log, Len(game.log) + 1, Len(game'.log))
       IN /\ IsSome(d.fighter)
          /\ hits =>
               IF IsSome(d2.fighter)
               THEN d2.fighter[1].hp = d.fighter[1].hp - damage
               ELSE d.fighter[1].hp - damage <= 0
          /\ ~hits => d2.fighter = d.fighter
          /\ SubSeq(game'.log, 1, Len(game.log)) = game.log
          /\ Cardinality({k \in 1..Len(added) : added[k] \in Outcomes}) = 1
          /\ added[1] = IF hits THEN "hit"
                        ELSE IF last'.miss \/ damage < 0 THEN "miss"
                        ELSE "no_effect"]_vars

(* The player has hit a monster that survives the blow.                    *)
C6_Witness ==
  /\ last.op = "attack"
  /\ ~last.miss
  /\ game.log = <<"hit">>
  /\ IsSome(objects[last.id].fighter)
  /\ objects[last.id].fighter[1].hp > 0
  /\ objects[last.id].fighter[1].hp < 100

---------------------------------------------------------------------------
(* Properties of level_up.                                                 *)

(* C7: with threshold = LEVEL_UP_BASE + level * LEVEL_UP_FACTOR, a check   *)
(* of level_up with xp below the threshold changes neither level nor xp;   *)
(* with xp at or above it the check raises the level by exactly 1 and,     *)
(* once the menu is answered, leaves xp at the original xp minus the       *)
(* threshold, which is not negative.                                       *)
C7_LevelUpThreshold ==
  [][LET player == objects[PLAYER]
         after == objects'[PLAYER]
         xp == player.fighter[1].xp
     IN /\ last'.op = "level_up" =>
             IF xp >= LEVEL_UP_BASE + player.level * LEVEL_UP_FACTOR
             THEN after.level = player.level + 1 /\ after.fighter[1].xp = xp
                  /\ pc' = "choice"
             ELSE after.level = player.level /\ after.fighter[1].xp = xp
                  /\ pc' = "keys"
        /\ last'.op = "choice" =>
             /\ after.level = player.level
             /\ after.fighter[1].xp
                  = xp - (LEVEL_UP_BASE + (player.level - 1) * LEVEL_UP_FACTOR)
             /\ after.fighter[1].xp >= 0]_vars

(* A player with xp equal to the threshold of level 1 has levelled up.     *)
C7_Witness ==
  /\ last.op = "choice"
  /\ objects[PLAYER].level = 2
  /\ objects[PLAYER].fighter[1].xp = 0

(* C8: answering the menu of level_up changes exactly the chosen one of    *)
(* base_max_hp (+20), base_power (+1) and base_defense (+1), and leaves    *)
(* the other two base stats as they were.                                  *)
C8_ExactlyChosenStat ==
  [][last'.op = "choice" =>
       LET f == objects[PLAYER].fighter[1]
           f2 == objects'[PLAYER].fighter[1]
           choice == last'.id
       IN /\ f2.base_max_hp = f.base_max_hp + (IF choice = 0 THEN 20 ELSE 0)
          /\ f2.base_power = f.base_power + (IF choice = 1 THEN 1 ELSE 0)
          /\ f2.base_defense = f.base_defense + (IF choice = 2 THEN 1 ELSE 0)]_vars

(* The menu was answered with Agility.                                     *)
C8_Witness ==
  /\ last.op = "choice"
  /\ last.id = 2
  /\ objects[PLAYER].fighter[1].base_defense = 2
  /\ objects[PLAYER].fighter[1].base_power = 4
  /\ objects[PLAYER].fighter[1].base_max_hp = 100

---------------------------------------------------------------------------
(* Properties of use_item.                                                 *)

(* An item without regard to its equipped flag.                            *)
Unworn(item) ==
  IF IsSome(item.equipment) THEN [item EXCEPT !.equipment[1].equipped = FALSE] ELSE item

(* C9: UsedUp removes exactly the used item and yields DidntTakeTurn;      *)
(* UseAndTakeTurn removes exactly the used item and yields TookTurn;       *)
(* UseAndKept and Cancelled keep every item and yield DidntTakeTurn; in    *)
(* each case the other items keep their relative order.                    *)
C9_UseItemOutcome ==
  [][(last'.op = "use" /\ last'.id > 0) =>
       LET i == last'.id
           result == last'.result
           before == game.inventory
           after == game'.inventory
       IN /\ result \in {"UsedUp", "UseAndTakeTurn", "UseAndKept", "Cancelled"}
          /\ result \in {"UsedUp", "UseAndTakeTurn"} =>
               /\ Len(after) = Len(before) - 1
               /\ \A k \in 1..Len(after) :
                    after[k] = before[IF k < i THEN k ELSE k + 1]
          /\ result \in {"UseAndKept", "Cancelled"} =>
               /\ Len(after) = Len(before)
               /\ \A k \in 1..Len(after) : Unworn(after[k]) = Unworn(before[k])
          /\ player_action' = IF result = "UseAndTakeTurn" THEN "TookTurn"
                              ELSE "DidntTakeTurn"]_vars

(* The scroll of lightning, second of five items, was used on a monster.   *)
C9_Witness ==
  /\ last.op = "use"
  /\ last.id = 2
  /\ last.result = "UseAndTakeTurn"
  /\ player_action = "TookTurn"
  /\ Len(game.inventory) = 4
  /\ game.inventory[2].name = <<"targe">>

(* C10: a use whose effect is Cancelled changes nothing but the log, which *)
(* it extends: the entity store (the player's hp with it), the inventory   *)
(* with every equipped flag, the map and the dungeon level are unchanged.  *)
C10_CancelledChangesOnlyLog ==
  [][(last'.op = "use" /\ last'.result = "Cancelled") =>
       /\ objects' = objects
       /\ game'.inventory = game.inventory
       /\ game'.map = game.map
       /\ game'.dungeon_level = game.dungeon_level
       /\ Len(game'.log) > Len(game.log)
       /\ SubSeq(game'.log, 1, Len(game.log)) = game.log]_vars

(* A healing potion was used at full health.                               *)
C10_Witness ==
  /\ last.op = "use"
  /\ last.result = "Cancelled"
  /\ game.inventory[last.id].item = Some("Heal")
  /\ objects[PLAYER].fighter[1].hp = max_hp(objects[PLAYER], game)
  /\ game.log = <<"full_health", "cancelled">>

---------------------------------------------------------------------------
(* Properties of the item effects.                                         *)

(* The step used inventory item last'.id, of the given kind.               *)
Used(kind) ==
  /\ last'.op = "use"
  /\ last'.id > 0
  /\ game.inventory[last'.id].item = Some(kind)

(* C11: using a heal item while the player's hp is not the effective max   *)
(* hp leaves hp at min(old hp + HEAL_AMOUNT, effective max hp), and never  *)
(* below the old hp.                                                       *)
C11_HealRaisesHp ==
  [][(Used("Heal") /\ objects[PLAYER].fighter[1].hp # max_hp(objects[PLAYER], game)) =>
       LET old == objects[PLAYER].fighter[1].hp
           new == objects'[PLAYER].fighter[1].hp
           top == max_hp(objects[PLAYER], game)
       IN /\ new = (IF old + HEAL_AMOUNT < top THEN old + HEAL_AMOUNT ELSE top)
          /\ new >= old]_vars

(* The part of C11 the code keeps: the new hp is min(old hp + HEAL_AMOUNT, *)
(* effective max hp), and the potion is used up.                           *)
C11_HealIsClampedSum ==
  [][(Used("Heal") /\ objects[PLAYER].fighter[1].hp # max_hp(objects[PLAYER], game)) =>
       LET old == objects[PLAYER].fighter[1].hp
           new == objects'[PLAYER].fighter[1].hp
           top == max_hp(objects[PLAYER], game)
       IN /\ new = (IF old + HEAL_AMOUNT < top THEN old + HEAL_AMOUNT ELSE top)
          /\ last'.result = "UsedUp"]_vars

---------------------------------------------------------------------------
(* Lightning over a wide room: the player in a corner of the room, two     *)
(* orcs on tiles at distances 3, 5, sqrt(29), sqrt(32), 6 and 7 from it, a *)
(* potion on the tile next to it, and two scrolls in the inventory.  Each  *)
(* step is handle_keys for the inventory key and the choice of a scroll.   *)

LightningRoom == Rect(3, 3, 10, 10)

StrikeSpots == {<<7, 4>>, <<9, 4>>, <<9, 6>>, <<8, 8>>, <<10, 4>>, <<11, 4>>}

InitLightning ==
  /\ \E a \in StrikeSpots : \E b \in StrikeSpots \ {a} :
       objects = <<[NewPlayer EXCEPT !.x = 4, !.y = 4],
                   NewItem("Heal", 5, 4),
                   NewMonster("orc", a[1], a[2], 4),
                   NewMonster("orc", b[1], b[2], 4),
                   Stairs(8, 8)>>
  /\ game = [map |-> create_room(LightningRoom, {}), log |-> <<>>,
             inventory |-> <<Dagger, Carried("Lightning", FALSE),
                             Carried("Lightning", FALSE)>>,
             dungeon_level |-> 4]
  /\ pc = "keys"
  /\ player_action = "DidntTakeTurn"
  /\ ai_id = 0
  /\ turn = 0
  /\ last = Last("start", 0, FALSE, "")
  /\ savegame = None
  /\ fov_origin = <<4, 4>>

UseLightning ==
  /\ turn < MaxTurns
  /\ \E i \in 1..Len(game.inventory) :
       /\ game.inventory[i].item = Some("Lightning")
       /\ \E out \in handle_keys([code |-> "i", menu |-> Some(i)], fov_origin,
                                 objects, game) :
            /\ objects' = out.objects
            /\ game' = out.game
            /\ player_action' = out.action
            /\ last' = [out.last EXCEPT !.key = "i"]
  /\ turn' = turn + 1
  /\ UNCHANGED <<pc, ai_id, savegame, fov_origin>>

NextLightning == UseLightning

SpecLightning == InitLightning /\ [][NextLightning]_vars

(* What the claim lets lightning strike: a non-player entity with Fighter  *)
(* and AI, on a tile in view, at most LIGHTNING_RANGE from the player.     *)
Eligible(i) ==
  /\ i # PLAYER
  /\ IsSome(objects[i].fighter)
  /\ IsSome(objects[i].ai)
  /\ Pos(objects[i]) \in last'.fov
  /\ Distance2(objects[PLAYER], objects[i]) <= LIGHTNING_RANGE * LIGHTNING_RANGE

(* The entities other than the player that the step changed.               *)
Struck == {i \in 1..Len(objects) : i # PLAYER /\ objects'[i] # objects[i]}

(* C12: a use of lightning strikes only a non-player entity with AI and    *)
(* Fighter that is in view and within LIGHTNING_RANGE of the player, and   *)
(* one at the least distance among those; when there is none the result is *)
(* Cancelled and no entity changes.                                        *)
C12_LightningTarget ==
  [][Used("Lightning") =>
       /\ Cardinality(Struck) <= 1
       /\ \A i \in Struck :
            /\ Eligible(i)
            /\ objects'[i].fighter # objects[i].fighter
            /\ \A j \in 1..Len(objects) :
                 Eligible(j) => Distance2(objects[PLAYER], objects[i])
                                  <= Distance2(objects[PLAYER], objects[j])
       /\ (\A i \in 1..Len(objects) : ~Eligible(i)) =>
            (last'.result = "Cancelled" /\ objects' = objects)
       /\ last'.result = "Cancelled" => objects' = objects]_vars

(* Two orcs were in view, at distances 3 and 5, and the nearer was struck. *)
C12_Witness ==
  /\ last.op = "use"
  /\ last.result = "UseAndTakeTurn"
  /\ last.fov = {<<7, 4>>, <<9, 4>>}
  /\ \E i \in 1..Len(objects) :
       /\ Pos(objects[i]) = <<7, 4>>
       /\ IsSome(objects[i].fighter) => objects[i].fighter[1].hp < 20
  /\ \E j \in 1..Len(objects) :
       /\ Pos(objects[j]) = <<9, 4>>
       /\ IsSome(objects[j].fighter)
       /\ IsSome(objects[j].ai)

---------------------------------------------------------------------------
(* Properties of drop_item and pick_item_up.                               *)

(* The bonus an inventory item gives while it is equipped.                 *)
BonusOf(item, bonus) ==
  IF IsSome(item.equipment) /\ item.equipment[1].equipped
  THEN item.equipment[1][bonus] ELSE 0

(* C13: dropping inventory item i takes exactly that item out of the       *)
(* inventory, the others keeping their order, and appends it to the entity *)
(* store on the player's tile with equipped = false; afterwards the        *)
(* player's power, defense and max_hp are those before less the bonuses    *)
(* the item gave.                                                          *)
C13_DropItem ==
  [][(last'.op = "drop" /\ last'.id > 0) =>
       LET i == last'.id
           item == game.inventory[i]
           dropped == objects'[Len(objects')]
           player == objects[PLAYER]
       IN /\ Len(game'.inventory) = Len(game.inventory) - 1
          /\ \A k \in 1..Len(game'.inventory) :
               game'.inventory[k] = game.inventory[IF k < i THEN k ELSE k + 1]
          /\ Len(objects') = Len(objects) + 1
          /\ SubSeq(objects', 1, Len(objects)) = objects
          /\ dropped = [Unworn(item) EXCEPT !.x = player.x, !.y = player.y]
          /\ power(objects'[PLAYER], game')
               = power(player, game) - BonusOf(item, "power_bonus")
          /\ defense(objects'[PLAYER], game')
               = defense(player, game) - BonusOf(item, "defense_bonus")
          /\ max_hp(objects'[PLAYER], game')
               = max_hp(player, game) - BonusOf(item, "max_hp_bonus")]_vars

(* The chainmail armor was dropped while worn.                             *)
C13_Witness ==
  /\ last.op = "drop"
  /\ last.id > 0
  /\ objects[Len(objects)].name = <<"chainmail armor">>
  /\ ~objects[Len(objects)].equipment[1].equipped
  /\ Pos(objects[Len(objects)]) = Pos(objects[PLAYER])
  /\ game.log = <<"dequipped", "dropped">>
  /\ max_hp(objects[PLAYER], game) = objects[PLAYER].fighter[1].base_max_hp

---------------------------------------------------------------------------
(* A full pack: the player stands on two items with 24, 25 or 26 items in  *)
(* the inventory, the dagger and healing potions.  Each step is            *)
(* handle_keys for the pick-up key, or for the drop key and the choice of  *)
(* an item.                                                                *)

(* handle_keys for key k, on its own.                                      *)
KeyStep(k) ==
  /\ turn < MaxTurns
  /\ \E out \in handle_keys(k, fov_origin, objects, game) :
       /\ objects' = out.objects
       /\ game' = out.game
       /\ player_action' = out.action
       /\ last' = [out.last EXCEPT !.key = k.code]
  /\ turn' = turn + 1
  /\ UNCHANGED <<pc, ai_id, savegame, fov_origin>>

PackSizes == {24, 25, 26}

InitInventory ==
  /\ objects = <<[NewPlayer EXCEPT !.x = 6, !.y = 6], Stairs(6, 6),
                 NewItem("Heal", 6, 6), NewItem("Sword", 6, 6)>>
  /\ \E n \in PackSizes :
       game = [map |-> create_room(Rect(3, 3, 6, 6), {}), log |-> <<>>,
               inventory |-> [k \in 1..n |-> IF k = 1 THEN Dagger
                                             ELSE Carried("Heal", FALSE)],
               dungeon_level |-> 3]
  /\ pc = "keys"
  /\ player_action = "DidntTakeTurn"
  /\ ai_id = 0
  /\ turn = 0
  /\ last = Last("start", 0, FALSE, "")
  /\ savegame = None
  /\ fov_origin = <<6, 6>>

PickUpKey == KeyStep([code |-> "f", menu |-> None])

DropKey == \E i \in 1..Len(game.inventory) : KeyStep([code |-> "d", menu |-> Some(i)])

NextInventory == PickUpKey \/ DropKey

SpecInventory == InitInventory /\ [][NextInventory]_vars

(* C14: the inventory never holds more than 26 items, and the pick-up key  *)
(* pressed with 26 items held leaves the entity store and the inventory    *)
(* (and the map and the dungeon level) unchanged and only appends to the   *)
(* log.                                                                    *)
C14_InventoryCapacity ==
  /\ [](Len(game.inventory) <= 26)
  /\ [][(last'.key = "f" /\ Len(game.inventory) = 26) =>
          /\ objects' = objects
          /\ game'.inventory = game.inventory
          /\ game'.map = game.map
          /\ game'.dungeon_level = game.dungeon_level
          /\ SubSeq(game'.log, 1, Len(game.log)) = game.log]_vars

(* The pick-up key was pressed over an item with 26 items held.            *)
C14_Witness ==
  /\ last.op = "pick_up"
  /\ last.id > 0
  /\ Len(game.inventory) = 26
  /\ Len(game.log) > 0
  /\ game.log[Len(game.log)] = "inventory_full"
  /\ \E i \in 2..Len(objects) : IsSome(objects[i].item) /\ Pos(objects[i]) = Pos(objects[PLAYER])

---------------------------------------------------------------------------
(* Properties of the entity store.                                         *)

(* The player entity: the one new_game builds, named "player", with the    *)
(* Fighter whose death behaviour is Player.                                *)
IsPlayer(o) ==
  /\ o.name = PlayerName
  /\ IsSome(o.fighter)
  /\ o.fighter[1].on_death = "Player"

(* C15: in every reachable state index PLAYER of the entity store holds    *)
(* the player entity, and no other index and no inventory slot does.       *)
C15_PlayerAtIndexZero ==
  /\ Len(objects) >= PLAYER
  /\ IsPlayer(objects[PLAYER])
  /\ \A i \in 1..Len(objects) : i # PLAYER => ~IsPlayer(objects[i])
  /\ \A k \in 1..Len(game.inventory) : ~IsPlayer(game.inventory[k])

(* An item that was not the last entity of the store was picked up, so     *)
(* swap_remove moved the last entity into its place.                       *)
C15_Witness ==
  /\ last.op = "pick_up"
  /\ last.id > PLAYER
  /\ last.id <= Len(objects)
  /\ game.log = <<"picked_up">>
  /\ IsPlayer(objects[PLAYER])

---------------------------------------------------------------------------
(* Level generation on its own: make_map called once, as next_level calls  *)
(* it, for a store that holds the player, the remains of a monster, a      *)
(* dropped dagger and the stairs of the level before.                      *)

(* Rooms that crowd each other: the second touches the first along an      *)
(* edge, the third overlaps the second and clears the first, and the       *)
(* fourth clears them all.                                                 *)
CrowdedDraws ==
  [rooms |-> {[x |-> 3, y |-> 3, w |-> 6, h |-> 6], [x |-> 9, y |-> 3, w |-> 6, h |-> 6],
              [x |-> 10, y |-> 3, w |-> 6, h |-> 6],
              [x |-> 3, y |-> 16, w |-> 7, h |-> 8]},
   offsets |-> {<<1, 0>>}, coins |-> BOOLEAN]

(* The n-th room of a grid of rooms of the smallest size, ten to a row,    *)
(* one tile apart.                                                         *)
GridRoom(n) ==
  [x |-> (ROOM_MIN_SIZE + 1) * ((n - 1) % 10), y |-> (ROOM_MIN_SIZE + 1) * ((n - 1) \div 10),
   w |-> ROOM_MIN_SIZE, h |-> ROOM_MIN_SIZE]

(* Every iteration of the loop draws a room that clears all the others.    *)
GridDraws ==
  [rooms |-> {}, schedule |-> [n \in 1..MAX_ROOMS |-> {GridRoom(n)}],
   offsets |-> {}, coins |-> {TRUE}]

(* One room, and spawns drawn on its centre.                                *)
CentreDraws ==
  [rooms |-> {[x |-> 3, y |-> 3, w |-> 6, h |-> 6]}, offsets |-> {<<0, 0>>},
   coins |-> {TRUE}]

InitMakeMap ==
  /\ \E t \in {<<0, 0>>, <<7, 6>>} :
       objects = <<[NewPlayer EXCEPT !.x = t[1], !.y = t[2]],
                   monster_death(NewMonster("poulet", 5, 6, 1), <<>>).obj,
                   [Dagger EXCEPT !.x = 6, !.y = 5, !.equipment[1].equipped = FALSE],
                   Stairs(7, 6)>>
  /\ \E level \in 1..2 :
       game = [map |-> {}, log |-> <<>>, inventory |-> <<Dagger>>, dungeon_level |-> level]
  /\ pc = "make_map"
  /\ player_action = "DidntTakeTurn"
  /\ ai_id = 0
  /\ turn = 0
  /\ last = Last("start", 0, FALSE, <<>>)
  /\ savegame = None
  /\ fov_origin = <<-1, -1>>

(* make_map(&mut objects, level): last.result keeps the rooms accepted.    *)
MakeMapCall ==
  /\ pc = "make_map"
  /\ \E draws \in {CrowdedDraws, GridDraws, CentreDraws} :
       \E m \in make_map(objects, game.dungeon_level, draws) :
         /\ objects' = m.objects
         /\ game' = [game EXCEPT !.map = m.map]
         /\ last' = Last("make_map", 0, FALSE, m.rooms)
         /\ pc' = IF m.panic THEN "panic" ELSE "keys"
  /\ UNCHANGED <<player_action, ai_id, turn, savegame, fov_origin>>

NextMakeMap == MakeMapCall

SpecMakeMap == InitMakeMap /\ [][NextMakeMap]_vars

(* Two rectangles share a point, their edges and corners included.         *)
Meet(a, b) ==
  /\ Max(a.x1, b.x1) <= Min(a.x2, b.x2)
  /\ Max(a.y1, b.y1) <= Min(a.y2, b.y2)

(* C16: of the rooms make_map accepted no two intersect, touching edges    *)
(* counting as intersecting, and there are at most MAX_ROOMS of them.      *)
C16_RoomsAreDisjoint ==
  last.op = "make_map" =>
    /\ \A i, j \in 1..Len(last.result) : i # j => ~Meet(last.result[i], last.result[j])
    /\ Len(last.result) <= MAX_ROOMS

(* make_map accepted a room in every iteration of its loop.                *)
C16_Witness == last.op = "make_map" /\ Len(last.result) = MAX_ROOMS

(* C17: after make_map the player stands on the centre of the first room   *)
(* accepted, a tile strictly inside the interior create_room carved for    *)
(* that room (columns x1 + 1 .. x2 - 1, rows y1 + 1 .. y2 - 1) and not     *)
(* blocked in the map.                                                     *)
C17_PlayerStartsAtFirstCenter ==
  last.op = "make_map" =>
    LET first == last.result[1]
        at == Pos(objects[PLAYER])
    IN /\ at = center(first)
       /\ first.x1 + 1 < at[1] /\ at[1] < first.x2 - 1
       /\ first.y1 + 1 < at[2] /\ at[2] < first.y2 - 1
       /\ ~TileBlocked(game.map, at[1], at[2])

(* make_map accepted a room of odd width first and other rooms after it,   *)
(* and the player, who started elsewhere, stands on that room's centre.    *)
C17_Witness ==
  /\ last.op = "make_map"
  /\ Len(last.result) > 1
  /\ (last.result[1].x2 - last.result[1].x1) % 2 = 1
  /\ Pos(objects[PLAYER]) = center(last.result[1])
  /\ Pos(objects[PLAYER]) # center(last.result[Len(last.result)])

---------------------------------------------------------------------------
(* from_dungeon_level on its own: one call on a drawn table and level.     *)

MaxTableLen == 3

(* The tables drawn: every table of up to MaxTableLen transitions, in any  *)
(* order of thresholds, and the tables place_object passes.                *)
TableDraws ==
  UNION {[1..n -> (1..3) \X (0..2)] : n \in 0..MaxTableLen}
    \cup {MaxMonstersTable, MaxItemsTable}
    \cup {MonsterChance(k) : k \in MonsterKinds}

LevelDraws == 0..11

InitTable ==
  /\ objects = <<NewPlayer>>
  /\ game = [map |-> {}, log |-> <<>>, inventory |-> <<>>, dungeon_level |-> 1]
  /\ pc = "from_dungeon_level"
  /\ player_action = "DidntTakeTurn"
  /\ ai_id = 0
  /\ turn = 0
  /\ \E table \in TableDraws : \E level \in LevelDraws :
       last = Last("start", 0, FALSE, [table |-> table, level |-> level, value |-> 0])
  /\ savegame = None
  /\ fov_origin = <<-1, -1>>

(* from_dungeon_level(table, level): last.result keeps the call.           *)
TableLookup ==
  /\ pc = "from_dungeon_level"
  /\ last' = Last("from_dungeon_level", 0, FALSE,
                  [last.result EXCEPT
                     !.value = from_dungeon_level(last.result.table, last.result.level)])
  /\ pc' = "keys"
  /\ UNCHANGED <<objects, game, player_action, ai_id, turn, savegame, fov_origin>>

NextTable == TableLookup

SpecTable == InitTable /\ [][NextTable]_vars

Ascending(table) == \A i, j \in 1..Len(table) : i < j => table[i][1] <= table[j][1]

(* C18: for a table whose thresholds ascend, from_dungeon_level returns    *)
(* the value of an entry whose threshold is the highest of those not above *)
(* the level (the last such entry where thresholds repeat), and 0 when     *)
(* every threshold is above the level.                                     *)
C18_FromDungeonLevel ==
  (last.op = "from_dungeon_level" /\ Ascending(last.result.table)) =>
    LET table == last.result.table
        under == {i \in 1..Len(table) : table[i][1] <= last.result.level}
    IN IF under = {} THEN last.result.value = 0
       ELSE \E i \in under :
              /\ \A j \in under : table[j][1] <= table[i][1]
              /\ \A j \in under : table[j][1] = table[i][1] => j <= i
              /\ last.result.value = table[i][2]

(* A lookup in an ascending table with several transitions at or below the *)
(* level, of different values.                                             *)
C18_Witness ==
  /\ last.op = "from_dungeon_level"
  /\ Ascending(last.result.table)
  /\ \E i, j \in 1..Len(last.result.table) :
       /\ last.result.table[i][1] < last.result.table[j][1]
       /\ last.result.table[j][1] <= last.result.level
       /\ last.result.table[i][2] # last.result.table[j][2]
  /\ \E i \in 1..Len(last.result.table) : last.result.table[i][1] > last.result.level

---------------------------------------------------------------------------
(* The AI sweep on its own: the player has taken a turn in a room with     *)
(* three monsters, and each of them takes its turn.                        *)

(* Tiles next to the player's, two tiles away, further away in the light   *)
(* of the torch, and beyond it.                                            *)
AiSpots == {<<5, 6>>, <<7, 7>>, <<8, 6>>, <<9, 9>>, <<12, 6>>}

InitAi ==
  /\ \E hp \in {1, 100} :
       \E a \in AiSpots : \E b \in AiSpots \ {a} : \E c \in AiSpots \ {a, b} :
         objects = <<[Veteran(hp, 0, 1) EXCEPT !.x = 6, !.y = 6],
                     NewMonster("orc", a[1], a[2], 4),
                     NewItem("Heal", 7, 6),
                     NewMonster("troll", b[1], b[2], 4),
                     NewMonster("orc", c[1], c[2], 4),
                     Stairs(8, 8)>>
  /\ game = [map |-> create_room(LightningRoom, {}), log |-> <<>>,
             inventory |-> <<Dagger>>, dungeon_level |-> 4]
  /\ pc = "ai"
  /\ player_action = "TookTurn"
  /\ ai_id = 1
  /\ turn = 0
  /\ last = Last("start", 0, FALSE, "")
  /\ savegame = None
  /\ fov_origin = <<6, 6>>

NextAi == AiStep

SpecAi == InitAi /\ [][NextAi]_vars

(* C19: a monster's AI step does nothing when the monster's tile is not in *)
(* the field of view; on a tile in view at distance >= 2 of the player it  *)
(* changes at most the monster's position, by at most one tile on each     *)
(* axis, and logs nothing; on a tile in view at distance < 2 it moves      *)
(* nobody and attacks (which writes to the log) exactly when the player's  *)
(* hp is above 0; and it leaves a player whose hp is <= 0 as it found it.  *)
C19_AiDecisionTable ==
  [][(last'.op = "ai" /\ IsSome(objects[last'.id].ai)) =>
       LET id == last'.id
           monster == objects[id]
           player == objects[PLAYER]
           seen == Pos(monster) \in last'.fov
           far == Distance2(monster, player) >= 4
           attacked == game'.log # game.log
       IN /\ Len(objects') = Len(objects)
          /\ ~seen => objects' = objects /\ game' = game
          /\ (seen /\ far) =>
               /\ game' = game
               /\ \A i \in 1..Len(objects) : i # id => objects'[i] = objects[i]
               /\ objects'[id] = [monster EXCEPT !.x = objects'[id].x, !.y = objects'[id].y]
               /\ objects'[id].x - monster.x \in -1..1
               /\ objects'[id].y - monster.y \in -1..1
          /\ (seen /\ ~far) =>
               /\ \A i \in 1..Len(objects) : Pos(objects'[i]) = Pos(objects[i])
               /\ attacked <=> player.fighter[1].hp > 0
               /\ ~attacked => objects' = objects /\ game' = game
          /\ player.fighter[1].hp <= 0 =>
               objects'[PLAYER] = player /\ game'.log = game.log]_vars

(* A monster in view next to a player whose hp is <= 0 has taken its turn. *)
C19_Witness ==
  /\ last.op = "ai"
  /\ Pos(objects[last.id]) \in last.fov
  /\ Distance2(objects[last.id], objects[PLAYER]) < 4
  /\ objects[PLAYER].fighter[1].hp <= 0
  /\ last.result = "idle"

---------------------------------------------------------------------------
(* Properties of the descent.                                              *)

(* C20: a step that changes the dungeon level raises it by exactly one,    *)
(* and is the handling of the descend key (Spacebar) pressed while the     *)
(* player is alive and on the tile of the stairs; so the level never       *)
(* decreases.                                                              *)
C20_DungeonLevelOnlyDescends ==
  [][/\ game'.dungeon_level >= game.dungeon_level
     /\ game'.dungeon_level # game.dungeon_level =>
          /\ game'.dungeon_level = game.dungeon_level + 1
          /\ last'.key = "Spacebar"
          /\ objects[PLAYER].alive
          /\ \E i \in 1..Len(objects) :
               /\ objects[i].name = <<"stairs">>
               /\ objects[i].x = objects[PLAYER].x
               /\ objects[i].y = objects[PLAYER].y]_vars

(* The player has descended from the first level in the last turn.         *)
C20_Witness ==
  /\ last.key = "Spacebar"
  /\ last.result = "descended"
  /\ turn = MaxTurns
  /\ game.dungeon_level = 2

(* C21: a descent sets the player's hp to the lesser of the old hp plus    *)
(* half the effective max hp (rounded down) and the effective max hp,      *)
(* raises the dungeon level by one and installs a new map (in which the    *)
(* player's tile is carved), and leaves the inventory and the player's     *)
(* base stats, xp and character level as they were.                        *)
C21_Descent ==
  [][(last'.key = "Spacebar" /\ last'.result = "descended") =>
       LET before == objects[PLAYER]
           after == objects'[PLAYER]
           top == max_hp(before, game)
       IN /\ after.fighter[1].hp = Min(before.fighter[1].hp + top \div 2, top)
          /\ game'.dungeon_level = game.dungeon_level + 1
          /\ ~TileBlocked(game'.map, after.x, after.y)
          /\ game'.inventory = game.inventory
          /\ after.fighter[1] = [before.fighter[1] EXCEPT !.hp = after.fighter[1].hp]
          /\ after.level = before.level]_vars

(* The player has descended and the rest left the hp below the max.        *)
C21_Witness ==
  /\ last.key = "Spacebar"
  /\ last.result = "descended"
  /\ objects[PLAYER].fighter[1].hp < max_hp(objects[PLAYER], game)
  /\ objects[PLAYER].fighter[1].hp > 50

---------------------------------------------------------------------------
(* Properties of the turn loop.                                            *)

(* The keys of the gameplay intents: move, pick up, use, descend,          *)
(* character sheet and drop.                                               *)
IntentKeys == DOMAIN Directions \cup {"f", "i", "Spacebar", "Tab", "d"}

(* C22: a gameplay key handled while the player's alive flag is false      *)
(* yields DidntTakeTurn, leaves the entity store, the inventory, the map   *)
(* and the dungeon level as they were, and is not followed by an AI sweep. *)
C22_DeadPlayerIntents ==
  [][(pc = "keys" /\ last'.key \in IntentKeys /\ ~objects[PLAYER].alive) =>
       /\ player_action' = "DidntTakeTurn"
       /\ objects' = objects
       /\ game'.inventory = game.inventory
       /\ game'.map = game.map
       /\ game'.dungeon_level = game.dungeon_level
       /\ pc' # "ai"]_vars

(* A dead player standing on the stairs with a potion in the pack has      *)
(* pressed the use key.                                                    *)
C22_Witness ==
  /\ ~objects[PLAYER].alive
  /\ last.key = "i"
  /\ Len(game.inventory) > 1
  /\ player_on_stairs(objects)

---------------------------------------------------------------------------
(* The main menu around games that are played, left and continued.         *)

(* In the menu before any game: no file, or a file that does not parse.    *)
InitSaveLoad ==
  /\ objects = <<>>
  /\ game = [map |-> {}, log |-> <<>>, inventory |-> <<>>, dungeon_level |-> 0]
  /\ pc = "exit"
  /\ player_action = "DidntTakeTurn"
  /\ ai_id = 0
  /\ turn = 0
  /\ last = Last("start", 0, FALSE, "")
  /\ savegame \in {None, Some(<<>>)}
  /\ fov_origin = <<-1, -1>>

(* "Play a new game" where no file is there yet, and the games play can    *)
(* lead to.                                                                *)
MainMenuNew ==
  /\ pc = "exit"
  /\ last.op = "start"
  /\ IsNone(savegame)
  /\ \E start \in StartStates :
       /\ objects' = start.objects
       /\ game' = start.game
  /\ pc' = "keys"
  /\ last' = Last("new_game", 0, FALSE, "")
  /\ UNCHANGED <<player_action, ai_id, turn, savegame, fov_origin>>

(* "Continue last game": load_game, and play_game on what it returned.     *)
MainMenuContinue ==
  /\ pc = "exit"
  /\ LET r == load_game(savegame)
     IN IF r.ok
        THEN /\ objects' = r.objects
             /\ game' = r.game
             /\ pc' = "level_up"
             /\ last' = Last("load", 0, FALSE, "Ok")
        ELSE /\ UNCHANGED <<objects, game, pc>>
             /\ last' = Last("load", 0, FALSE, "Err")
  /\ UNCHANGED <<player_action, ai_id, turn, savegame, fov_origin>>

(* A key that changes the game: a pick-up, a use, a drop or a descent.     *)
PlayKey ==
  /\ pc = "keys"
  /\ \E k \in Keys(game) : k.code \in {"f", "i", "d", "Spacebar"} /\ KeyStep(k)

(* Escape: handle_keys returns Exit and play_game saves and returns.       *)
ExitKey ==
  /\ pc = "keys"
  /\ \E out \in handle_keys([code |-> "Escape", menu |-> None], fov_origin, objects, game) :
       /\ out.action = "Exit"
       /\ objects' = out.objects
       /\ game' = out.game
       /\ player_action' = out.action
       /\ last' = [out.last EXCEPT !.key = "Escape"]
       /\ savegame' = save_game(out.objects, out.game)
  /\ pc' = "exit"
  /\ UNCHANGED <<ai_id, turn, fov_origin>>

NextSaveLoad == MainMenuNew \/ MainMenuContinue \/ PlayKey \/ ExitKey

SpecSaveLoad == InitSaveLoad /\ [][NextSaveLoad]_vars

(* The same tiles are blocked in both maps.                                *)
SameTiles(m1, m2) ==
  \A t \in OpenTiles(m1) \cup OpenTiles(m2) :
    TileBlocked(m1, t[1], t[2]) = TileBlocked(m2, t[1], t[2])

C24_LevelUpBlocksTurns ==
  [][pc = "choice" =>
       /\ game' = game
       /\ player_action' = player_action
       /\ turn' = turn
       /\ ai_id' = ai_id
       /\ Len(objects') = Len(objects)
       /\ \A i \in 1..Len(objects) : i # PLAYER => objects'[i] = objects[i]
       /\ \/ pc' = "choice" /\ objects' = objects
          \/ /\ pc' = "keys"
             /\ Cardinality({stat \in {"base_max_hp", "base_power", "base_defense"} :
                               objects'[PLAYER].fighter[1][stat]
                                 # objects[PLAYER].fighter[1][stat]}) = 1]_vars

(* The menu was answered with a choice while a monster stood by.           *)
C24_Witness ==
  /\ pc = "keys"
  /\ last.op = "choice"
  /\ objects[PLAYER].level = 2
  /\ Monsters(objects) # {}

---------------------------------------------------------------------------
(* One iteration of play_game from handle_keys on, in a room with two      *)
(* monsters, with an item and the stairs on the player's tile.             *)

InitTurn ==
  /\ \E hp \in {1, 60} : \E a \in AiSpots : \E b \in AiSpots \ {a} :
       objects = <<[Veteran(hp, 0, 1) EXCEPT !.x = 6, !.y = 6],
                   NewMonster("orc", a[1], a[2], 4),
                   NewItem("Heal", 6, 6),
                   NewMonster("troll", b[1], b[2], 4),
                   Stairs(6, 6)>>
  /\ game = [map |-> create_room(LightningRoom, {}), log |-> <<>>,
             inventory |-> <<Dagger, Carried("Heal", FALSE), Carried("Lightning", FALSE),
                             Carried("Sword", FALSE)>>,
             dungeon_level |-> 4]
  /\ pc = "keys"
  /\ player_action = "DidntTakeTurn"
  /\ ai_id = 0
  /\ turn = 0
  /\ last = Last("start", 0, FALSE, "")
  /\ savegame = None
  /\ fov_origin = <<6, 6>>

NextTurn == HandleKeys \/ AiStep

SpecTurn == InitTurn /\ [][NextTurn]_vars

(* The entities that bear an AI.                                           *)
AiBearing(objs) == {i \in 1..Len(objs) : IsSome(objs[i].ai)}

(* The step handled a pick-up, a drop, an equip toggle, a heal, a descent  *)
(* or a use that was cancelled.                                            *)
QuietIntent ==
  \/ last'.op \in {"pick_up", "drop", "descend"}
  \/ last'.op = "use" /\ last'.result \in {"UseAndKept", "Cancelled"}
  \/ last'.op = "use" /\ last'.id > 0 /\ game.inventory[last'.id].item = Some("Heal")

(* C25: the AI sweep starts exactly after a handle_keys that returned      *)
(* TookTurn and left the player alive (and some entity bears an AI); the   *)
(* steps of a sweep visit the AI-bearing entities one by one in store      *)
(* order, none left out; and a pick-up, drop, equip toggle, heal, descent  *)
(* or cancelled use yields DidntTakeTurn and starts no sweep.              *)
C25_SweepAfterTookTurn ==
  [][/\ pc = "keys" =>
          (pc' = "ai" <=> /\ player_action' = "TookTurn"
                          /\ objects'[PLAYER].alive
                          /\ AiBearing(objects') # {})
     /\ pc' = "ai" => pc \in {"keys", "ai"}
     /\ pc = "ai" =>
          /\ last'.op = "ai"
          /\ last'.id \in AiBearing(objects)
          /\ \A i \in AiBearing(objects) :
               i < last'.id => last.op = "ai" /\ i <= last.id
          /\ last.op = "ai" => last'.id > last.id
          /\ pc' # "ai" => \A i \in AiBearing(objects') : i <= last'.id
     /\ (pc = "keys" /\ QuietIntent) =>
          player_action' = "DidntTakeTurn" /\ pc' # "ai"]_vars

(* A sweep has ended in which the second of two monsters took its step.    *)
C25_Witness ==
  /\ pc = "level_up"
  /\ last.op = "ai"
  /\ \E i \in AiBearing(objects) : i < last.id
  /\ player_action = "TookTurn"

---------------------------------------------------------------------------
(* Moves on their own: the player in the corner of a room, walls to the    *)
(* north and west, and to the east and south a free tile, a monster, an    *)
(* item or the remains of a monster.                                       *)

Neighbours == {"none", "orc", "item", "remains"}

(* What stands on a tile next to the player: a sequence of entities.       *)
Neighbour(kind, x, y) ==
  CASE kind = "none" -> <<>>
    [] kind = "orc" -> <<NewMonster("orc", x, y, 4)>>
    [] kind = "item" -> <<NewItem("Heal", x, y)>>
    [] kind = "remains" -> <<monster_death(NewMonster("orc", x, y, 4), <<>>).obj>>

InitMove ==
  /\ \E east \in Neighbours : \E south \in Neighbours :
       objects = <<[NewPlayer EXCEPT !.x = 4, !.y = 4]>>
                   \o Neighbour(east, 5, 4) \o Neighbour(south, 4, 5) \o <<Stairs(8, 8)>>
  /\ game = [map |-> create_room(LightningRoom, {}), log |-> <<>>,
             inventory |-> <<Dagger>>, dungeon_level |-> 4]
  /\ pc = "keys"
  /\ player_action = "DidntTakeTurn"
  /\ ai_id = 0
  /\ turn = 0
  /\ last = Last("start", 0, FALSE, "")
  /\ savegame = None
  /\ fov_origin = <<4, 4>>

MoveKey == \E c \in DOMAIN Directions : KeyStep([code |-> c, menu |-> None])

NextMove == MoveKey

SpecMove == InitMove /\ [][NextMove]_vars

(* C26: an arrow key handled for a living player yields TookTurn; the      *)
(* player ends on the tile it was on or on the next tile in the key's      *)
(* direction, and on the latter only if that tile is neither blocked in    *)
(* the map nor the tile of an entity that blocks.                          *)
C26_MoveTakesTurn ==
  [][(last'.key \in DOMAIN Directions /\ objects[PLAYER].alive) =>
       LET from == Pos(objects[PLAYER])
           to == Pos(objects'[PLAYER])
           dest == <<from[1] + Directions[last'.key][1], from[2] + Directions[last'.key][2]>>
       IN /\ player_action' = "TookTurn"
          /\ to \in {from, dest}
          /\ to # from =>
               /\ ~TileBlocked(game.map, dest[1], dest[2])
               /\ \A i \in 1..Len(objects) : objects[i].blocks => Pos(objects[i]) # dest]_vars

(* The player has walked into a wall and stayed in the corner.             *)
C26_Witness ==
  /\ turn = 1
  /\ last.key = "Up"
  /\ last.op = "move"
  /\ player_action = "TookTurn"
  /\ Pos(objects[PLAYER]) = <<4, 4>>
  /\ TileBlocked(game.map, 4, 3)

(* The tile lies in the interior of one of the rooms.                      *)
InsideSome(rooms, x, y) ==
  \E k \in 1..Len(rooms) :
    /\ rooms[k].x1 < x /\ x < rooms[k].x2
    /\ rooms[k].y1 < y /\ y < rooms[k].y2

(* The entity is one place_object creates at this level.                   *)
Spawned(o, level) ==
  \/ \E kind \in MonsterKinds : o = NewMonster(kind, o.x, o.y, level)
  \/ \E kind \in ItemKinds : o = NewItem(kind, o.x, o.y)

(* C27: make_map leaves a store that holds the player at index 0 (moved,   *)
(* otherwise as it was), then only entities spawned for the new level,     *)
(* each as place_object creates it and inside an accepted room, and last   *)
(* the stairs at the centre of the last accepted room; nothing of the      *)
(* store before remains.                                                   *)
C27_StoreAfterMakeMap ==
  [][last'.op = "make_map" =>
       LET rooms == last'.result
           n == Len(objects')
       IN /\ n >= 2
          /\ objects'[PLAYER] = [objects[PLAYER] EXCEPT !.x = objects'[PLAYER].x,
                                                       !.y = objects'[PLAYER].y]
          /\ objects'[n] = Stairs(center(rooms[Len(rooms)])[1], center(rooms[Len(rooms)])[2])
          /\ \A i \in 2..(n - 1) :
               /\ Spawned(objects'[i], game'.dungeon_level)
               /\ InsideSome(rooms, objects'[i].x, objects'[i].y)
               /\ \A j \in 2..Len(objects) : objects'[i] # objects[j]]_vars

(* make_map spawned a monster and an item and left the stairs in another   *)
(* room than the player's.                                                 *)
C27_Witness ==
  /\ last.op = "make_map"
  /\ Len(last.result) > 1
  /\ Monsters(objects) # {}
  /\ \E i \in 2..Len(objects) : IsSome(objects[i].item)
  /\ objects[Len(objects)].name = <<"stairs">>
  /\ Pos(objects[Len(objects)]) # Pos(objects[PLAYER])

---------------------------------------------------------------------------
(* Properties of the player's hit points.                                  *)

(* C28: in every reachable state the player's hp is at most the player's   *)
(* effective max hp, base_max_hp plus the max_hp bonuses of the equipped   *)
(* items of the inventory.                                                 *)
C28_HpWithinMax ==
  objects[PLAYER].fighter[1].hp
    <= objects[PLAYER].fighter[1].base_max_hp
         + SumSeq([k \in 1..Len(game.inventory) |->
                     IF IsEquipped(game.inventory[k])
                     THEN game.inventory[k].equipment[1].max_hp_bonus ELSE 0])

(* C29: after level generation no two entities that block stand on the     *)
(* same tile, and no entity that blocks stands on a tile blocked in the    *)
(* map.                                                                    *)
C29_BlockersApart ==
  last.op = "make_map" =>
    /\ \A i, j \in 1..Len(objects) :
         (i # j /\ objects[i].blocks /\ objects[j].blocks) => Pos(objects[i]) # Pos(objects[j])
    /\ \A i \in 1..Len(objects) :
         objects[i].blocks => ~TileBlocked(game.map, objects[i].x, objects[i].y)

---------------------------------------------------------------------------
(* The turn loop in a room with two monsters, one of them nearly dead,     *)
(* and a player nearly dead and one kill short of the next level.          *)

InitTwoMonsters ==
  /\ \E hp \in {1, 100} : \E xp \in {0, 349} : \E spot \in {<<5, 6>>, <<6, 7>>, <<9, 9>>} :
       objects = <<[Veteran(hp, xp, 1) EXCEPT !.x = 6, !.y = 6],
                   [NewMonster("orc", 7, 6, 4) EXCEPT !.fighter[1].hp = 1],
                   NewMonster("troll", spot[1], spot[2], 4),
                   Stairs(8, 8)>>
  /\ game = [map |-> create_room(LightningRoom, {}), log |-> <<>>,
             inventory |-> <<Dagger>>, dungeon_level |-> 4]
  /\ pc = "level_up"
  /\ player_action = "DidntTakeTurn"
  /\ ai_id = 0
  /\ turn = 0
  /\ last = Last("start", 0, FALSE, "")
  /\ savegame = None
  /\ fov_origin = <<-1, -1>>

SpecTwoMonsters == InitTwoMonsters /\ [][Next]_vars

(* C30: a step of the game loop taken while the player's alive flag is     *)
(* false leaves the player's hp, character level, xp and base stats as     *)
(* they are.                                                               *)
C30_DeadPlayerKeepsStats ==
  [][~objects[PLAYER].alive =>
       /\ objects'[PLAYER].fighter = objects[PLAYER].fighter
       /\ objects'[PLAYER].level = objects[PLAYER].level]_vars

---------------------------------------------------------------------------
(* Properties of level generation that keep it from panicking.             *)

(* C31: make_map accepts at least one room, so the lookup of the last      *)
(* room's centre for the stairs does not panic, and the first room         *)
(* accepted is the first one drawn.                                        *)
C31_SomeRoomAccepted ==
  [][last'.op = "make_map" =>
       /\ pc' # "panic"
       /\ Len(last'.result) >= 1
       /\ \E draws \in {CrowdedDraws, GridDraws, CentreDraws} :
            \E d \in RoomDraws(draws, MAX_ROOMS) :
              last'.result[1] = Rect(d.x, d.y, d.w, d.h)
       /\ objects'[Len(objects')].name = <<"stairs">>]_vars

(* make_map accepted the first room drawn and rejected every later one,    *)
(* and put the stairs on that room's centre, where the player stands.      *)
C31_Witness ==
  /\ last.op = "make_map"
  /\ pc = "keys"
  /\ Len(last.result) = 1
  /\ Pos(objects[Len(objects)]) = center(last.result[1])
  /\ Pos(objects[PLAYER]) = center(last.result[1])

---------------------------------------------------------------------------
(* place_object on its own: one call for a room of a level drawn from the  *)
(* levels a game can reach, the player standing outside the room.          *)

MaxLevel == 12

MonsterWeightSum(level) ==
  from_dungeon_level(MonsterChance("poulet"), level)
    + from_dungeon_level(MonsterChance("orc"), level)
    + from_dungeon_level(MonsterChance("troll"), level)
    + from_dungeon_level(MonsterChance("boss"), level)

ItemWeightSum(level) ==
  ItemWeight("Heal", level) + ItemWeight("Lightning", level) + ItemWeight("Sword", level)
    + ItemWeight("Targe", level) + ItemWeight("Chest", level)

(* WeightedIndex::new(&weights).unwrap() panics when the weights sum to 0, *)
(* in the first iteration of a spawn loop that runs at all.                *)
WeightedIndexPanics(level) ==
  \/ from_dungeon_level(MaxMonstersTable, level) > 0 /\ MonsterWeightSum(level) = 0
  \/ from_dungeon_level(MaxItemsTable, level) > 0 /\ ItemWeightSum(level) = 0

InitPlaceObject ==
  /\ objects = <<NewPlayer>>
  /\ \E level \in 1..MaxLevel :
       game = [map |-> create_room(LightningRoom, {}), log |-> <<>>, inventory |-> <<>>,
               dungeon_level |-> level]
  /\ pc = "place_object"
  /\ player_action = "DidntTakeTurn"
  /\ ai_id = 0
  /\ turn = 0
  /\ last = Last("start", 0, FALSE, "")
  /\ savegame = None
  /\ fov_origin = <<-1, -1>>

(* place_object(new_room, &map, objects, level)                            *)
PlaceObjectCall ==
  /\ pc = "place_object"
  /\ \E panic \in {FALSE, WeightedIndexPanics(game.dungeon_level)} :
       IF panic
       THEN objects' = objects /\ pc' = "panic"
       ELSE /\ objects' \in place_object(LightningRoom, game.map, objects,
                                         game.dungeon_level, {<<0, 0>>, <<1, 0>>})
            /\ pc' = "keys"
  /\ last' = Last("place_object", 0, FALSE, "")
  /\ UNCHANGED <<game, player_action, ai_id, turn, savegame, fov_origin>>

SpecPlaceObject == InitPlaceObject /\ [][PlaceObjectCall]_vars

(* C32: at every dungeon level from 1 up the monster weights and the item  *)
(* weights each sum to a positive value, so the weighted choice of         *)
(* place_object does not panic; and no monster or item of a kind whose     *)
(* weight is 0 at the level is spawned.                                    *)
C32_SpawnWeights ==
  LET level == game.dungeon_level
  IN /\ level >= 1 => (MonsterWeightSum(level) > 0 /\ ItemWeightSum(level) > 0)
     /\ last.op = "place_object" =>
          /\ pc # "panic"
          /\ \A i \in 2..Len(objects) :
               /\ \A k \in MonsterKinds :
                    objects[i] = NewMonster(k, objects[i].x, objects[i].y, level)
                      => from_dungeon_level(MonsterChance(k), level) > 0
               /\ \A k \in ItemKinds :
                    objects[i] = NewItem(k, objects[i].x, objects[i].y)
                      => ItemWeight(k, level) > 0

(* place_object spawned a troll and a lightning scroll at level 4, where   *)
(* the poulet's weight has dropped to 0.                                   *)
C32_Witness ==
  /\ last.op = "place_object"
  /\ game.dungeon_level = 4
  /\ from_dungeon_level(MonsterChance("poulet"), 4) = 0
  /\ \E i, j \in 2..Len(objects) :
       /\ objects[i].name = <<"troll">>
       /\ objects[j].item = Some("Lightning")

---------------------------------------------------------------------------
(* Properties of the entity store.                                         *)

(* C33: no entity of the entity store has equipped = true: equipment is    *)
(* worn only while it is in the inventory.                                 *)
C33_StoreItemsUnworn ==
  \A i \in 1..Len(objects) :
    IsSome(objects[i].equipment) => ~objects[i].equipment[1].equipped

(* The store holds the dagger, dropped while it was worn, beside a piece   *)
(* of equipment the level was generated with.                              *)
C33_Witness ==
  /\ last.op = "drop"
  /\ objects[Len(objects)].name = <<"dagger">>
  /\ Len(SelectSeq(game.log, LAMBDA e : e = "dequipped")) > 0
  /\ \E i \in 2..(Len(objects) - 1) : IsSome(objects[i].equipment)
  /\ \A i \in 1..Len(game.inventory) : game.inventory[i].name # <<"dagger">>

---------------------------------------------------------------------------
(* Properties of the indices the game uses.                                *)

(* C34: no call of mut_two panics: the target of the player's attack is an *)
(* entity of the store other than the player, the attacker of the sweep is *)
(* an entity of the store other than the player, and the entity at the     *)
(* player's index bears no AI.                                             *)
C34_MutTwoDistinct ==
  /\ pc # "panic"
  /\ last.op # "panic"
  /\ IsNone(objects[PLAYER].ai)
  /\ last.op = "attack" => (last.id # PLAYER /\ last.id \in 1..Len(objects))
  /\ last.op = "ai" =>
       /\ last.result # "panic"
       /\ last.id # PLAYER
       /\ last.id \in 1..Len(objects)

(* The player attacked a monster and the monster, still alive, attacked    *)
(* the player in the sweep of the same turn.                               *)
C34_Witness ==
  /\ last.op = "ai"
  /\ last.result = "attack"
  /\ player_action = "TookTurn"
  /\ objects[last.id].alive
  /\ Len(SelectSeq(game.log, LAMBDA e : e \in {"hit", "miss", "no_effect"})) >= 2
  /\ turn = 1

---------------------------------------------------------------------------
(* A turn next to the border of the map: the level is generated from the   *)
(* rooms closest to two opposite corners of the grid that gen_range can    *)
(* draw, one of the smallest and one of the largest size, with spawns in   *)
(* the rooms' outer corners, and the player has walked to a tile beside    *)
(* the border or stayed on the centre of the first room.                   *)

BorderDraws ==
  [rooms |-> {[x |-> 0, y |-> 0, w |-> ROOM_MIN_SIZE, h |-> ROOM_MIN_SIZE],
              [x |-> MAP_WIDTH - ROOM_MAX_SIZE - 1, y |-> MAP_HEIGHT - ROOM_MAX_SIZE - 1,
               w |-> ROOM_MAX_SIZE, h |-> ROOM_MAX_SIZE]},
   offsets |-> {<<-2, -2>>, <<4, 4>>}, coins |-> BOOLEAN]

WalkedTo(m) ==
  {t \in {<<1, 1>>, <<1, 2>>, <<MAP_WIDTH - 2, MAP_HEIGHT - 2>>,
          <<MAP_WIDTH - 3, MAP_HEIGHT - 2>>, Pos(m.objects[PLAYER])} :
     \/ t = Pos(m.objects[PLAYER])
     \/ ~is_blocked(t[1], t[2], m.map, m.objects)}

InitBorder ==
  /\ \E m \in make_map(<<NewPlayer>>, 1, BorderDraws) : \E t \in WalkedTo(m) :
       /\ objects = [m.objects EXCEPT ![PLAYER] = SetPos(@, t[1], t[2])]
       /\ game = [map |-> m.map, log |-> <<>>, inventory |-> <<Dagger>>,
                  dungeon_level |-> 1]
       /\ fov_origin = t
  /\ pc = "keys"
  /\ player_action = "DidntTakeTurn"
  /\ ai_id = 0
  /\ turn = 0
  /\ last = Last("start", 0, FALSE, "")
  /\ savegame = None

SpecBorder == InitBorder /\ [][NextTurn]_vars

(* The tiles of the outer border of the grid.                              *)
BorderTiles ==
  {t \in MapTiles : t[1] \in {0, MAP_WIDTH - 1} \/ t[2] \in {0, MAP_HEIGHT - 1}}

(* C35: every tile of the outer border of the map is a wall, every entity  *)
(* stands on a tile of the grid, and every tile next to the player or to   *)
(* an AI-bearing entity, the tiles move_by can ask is_blocked about, is a  *)
(* tile of the grid.                                                       *)
C35_BorderIsWall ==
  /\ \A t \in BorderTiles : TileBlocked(game.map, t[1], t[2])
  /\ \A i \in 1..Len(objects) : Pos(objects[i]) \in MapTiles
  /\ \A i \in 1..Len(objects) :
       (i = PLAYER \/ IsSome(objects[i].ai)) =>
         \A dx, dy \in -1..1 : <<objects[i].x + dx, objects[i].y + dy>> \in MapTiles

(* Both corner rooms were generated, and the player, on the tile in the    *)
(* corner of the grid's last room, has walked into the border and stayed.  *)
C35_Witness ==
  /\ last.op = "move"
  /\ last.key = "Right"
  /\ Pos(objects[PLAYER]) = <<MAP_WIDTH - 2, MAP_HEIGHT - 2>>
  /\ ~TileBlocked(game.map, 1, 1)
  /\ TileBlocked(game.map, MAP_WIDTH - 1, MAP_HEIGHT - 2)

====
